---- MODULE Spec2Model ----
(***************************************************************************)
(* Model of the video-analysis backend: the tracker store                  *)
(* (models/tracker.py), the detection/tracking agents (agents/*.py), the   *)
(* pipeline driver (utils/processor.py) and the job registry               *)
(* (api/routes.py).                                                        *)
(*                                                                         *)
(* Conventions.  A detection's bbox is a corner box <<x1, y1, x2, y2>> of  *)
(* floats; the model counts them in half pixels, so that int() in          *)
(* ObjectTracker.init really truncates.  A tracker's box is <<x, y, w, h>>  *)
(* in whole pixels.  Confidences are in percent.  A frame is its index in  *)
(* the video; what the detector network and the OpenCV trackers make of a  *)
(* frame is an input, chosen in the actions.                               *)
(***************************************************************************)
EXTENDS Integers, Sequences, FiniteSets, TLC

VARIABLES
    cv2api,             \* which OpenCV tracker API the build offers
    use_agents,         \* VideoProcessor.use_agents
    tracker,            \* the ObjectTracker (processor.tracker / tracking_agent.tracker)
    detection_agent,    \* DetectionAgent: frame_count, last_detections
    tracking_agent,     \* TrackingAgent: frame_count, initialized, last_tracks
    stats,              \* CoordinatorAgent.stats
    driver,             \* per job: the worker thread's position and process_video's locals
    processing_status,  \* VideoProcessor.processing_status
    detection_results,  \* VideoProcessor.detection_results
    results_files,      \* RESULTS_DIR/<id>_results.json
    processing_jobs,    \* routes.processing_jobs
    response,           \* the last answer given to a client query
    faults,             \* tracker update failures injected so far
    calls,              \* store calls made so far: [inits, updates]
    last,               \* what the last store call or frame step did
    assigned,           \* every id the store has assigned, in order
    live_counts         \* the jobs whose results hold coordinator.stats["detection_classes"]

vars == <<cv2api, use_agents, tracker, detection_agent, tracking_agent, stats,
          driver, processing_status, detection_results, results_files,
          processing_jobs, response, faults, calls, last, assigned, live_counts>>

----------------------------------------------------------------------------
(* Bounds of the model *)

MaxInits == 3
MaxUpdates == 32
MaxFaults == 1

(* Program constants *)

HistoryCap == 30

----------------------------------------------------------------------------
(* Inputs *)

D1 == [id |-> 0, class_id |-> 0, class_name |-> "person", confidence |-> 80,
       bbox |-> <<2, 2, 6, 8>>]
D2 == [id |-> 1, class_id |-> 2, class_name |-> "car", confidence |-> 60,
       bbox |-> <<3, 4, 8, 9>>]

\* what detect() may return for a frame
DetectionLists == {<<>>, <<D1>>, <<D1, D2>>}

Outcomes == {"ok", "fail", "raise"}

Cv2Apis == {"new", "legacy", "none"}

\* the tracker_type an ObjectTracker is made with: the default, and a name
\* _create_tracker has no branch for
TrackerTypes == {"KCF", "GOTURN"}

NoId == "-"

SeqsOf(S, n) == [1..n -> S]

Range(s) == {s[i] : i \in DOMAIN s}

----------------------------------------------------------------------------
(* models/tracker.py *)

\* int() of a non-negative float counted in half pixels
PyInt(v) == v \div 2

\* bbox = (int(x1), int(y1), int(x2 - x1), int(y2 - y1))
ToXYWH(b) == <<PyInt(b[1]), PyInt(b[2]), PyInt(b[3] - b[1]), PyInt(b[4] - b[2])>>

\* [bbox[0], bbox[1], bbox[0] + bbox[2], bbox[1] + bbox[3]]
ToCorners(b) == <<b[1], b[2], b[1] + b[3], b[2] + b[4]>>

\* ObjectTracker.__init__
NewObjectTracker == [tracker_type |-> "KCF", tracked_objects |-> <<>>, next_id |-> 0]

\* a _create_tracker that takes KCF for a type it does not know
CreateTrackerDefaultKCF(type, api) ==
    IF api \in {"new", "legacy"}
    THEN [kind |-> "KCF", bbox |-> <<>>]
    ELSE [kind |-> "Dummy", bbox |-> <<>>]

\* ObjectTracker._create_tracker: an OpenCV tracker, or the dummy one
CreateTracker(type, api) ==
    IF type \in {"KCF", "CSRT", "MOSSE"} /\ api \in {"new", "legacy"}
    THEN [kind |-> type, bbox |-> <<>>]
    ELSE [kind |-> "Dummy", bbox |-> <<>>]

\* tracker.init(frame, bbox): DummyTracker.init always succeeds; an OpenCV
\* tracker answers as the input `out` says
TrackerInitOutcome(trk, out) == IF trk.kind = "Dummy" THEN "ok" ELSE out

\* tracker.update(frame): <<outcome, bbox>>.  The dummy tracker returns the
\* box it was given; an OpenCV tracker that succeeds has followed the object
\* one pixel to the right
TrackerUpdate(trk, out) ==
    IF trk.kind = "Dummy"
    THEN IF trk.bbox # <<>> THEN <<"ok", trk.bbox>> ELSE <<"fail", <<0, 0, 0, 0>>>>
    ELSE IF out = "ok"
         THEN <<"ok", <<trk.bbox[1] + 1, trk.bbox[2], trk.bbox[3], trk.bbox[4]>>>>
         ELSE <<out, trk.bbox>>

\* an init that spends an id on a detection whose tracker does not start
InitOneSpendingId(t, det, out, api) ==
    LET trk  == CreateTracker(t.tracker_type, api)
        bbox == ToXYWH(det.bbox)
        success == TrackerInitOutcome(trk, out) = "ok"
        obj == [id |-> t.next_id,
                tracker |-> [trk EXCEPT !.bbox = bbox],
                class_id |-> det.class_id,
                class_name |-> det.class_name,
                confidence |-> det.confidence,
                bbox |-> bbox,
                history |-> <<bbox>>]
    IN  IF success
        THEN [t EXCEPT !.tracked_objects = Append(@, obj), !.next_id = @ + 1]
        ELSE [t EXCEPT !.next_id = @ + 1]

\* the body of the for loop of ObjectTracker.init, for detection det
InitOne(t, det, out, api) ==
    LET trk  == CreateTracker(t.tracker_type, api)
        bbox == ToXYWH(det.bbox)
        success == TrackerInitOutcome(trk, out) = "ok"
        obj == [id |-> t.next_id,
                tracker |-> [trk EXCEPT !.bbox = bbox],
                class_id |-> det.class_id,
                class_name |-> det.class_name,
                confidence |-> det.confidence,
                bbox |-> bbox,
                history |-> <<bbox>>]
    IN  IF success
        THEN [t EXCEPT !.tracked_objects = Append(@, obj), !.next_id = @ + 1]
        ELSE t

RECURSIVE InitLoop(_, _, _, _, _)
InitLoop(t, detections, outs, api, i) ==
    IF i > Len(detections) THEN t
    ELSE InitLoop(InitOne(t, detections[i], outs[i], api), detections, outs, api, i + 1)

\* (mutant) a clear that also starts the id counter again
ClearStoreRestartIds(t) == [t EXCEPT !.tracked_objects = <<>>, !.next_id = 0]

\* the clearing at the head of ObjectTracker.init
ClearStore(t) == [t EXCEPT !.tracked_objects = <<>>]

\* ObjectTracker.init(frame, detections)
TrackerInit(t, detections, outs, api) ==
    InitLoop(ClearStore(t), detections, outs, api, 1)

\* (mutant) a reinitialize that merges the new detections into the store
TrackerReinitializeMerge(t, detections, outs, api) ==
    InitLoop(t, detections, outs, api, 1)

\* ObjectTracker.reinitialize(frame, detections)
TrackerReinitialize(t, detections, outs, api) ==
    TrackerInit(t, detections, outs, api)

\* (mutant) a history that is never cut
TrimHistoryNever(h) == h

\* (mutant) a history cut at its newer end
TrimHistoryKeepFirst(h) ==
    IF Len(h) > HistoryCap THEN SubSeq(h, 1, HistoryCap) ELSE h

\* obj["history"] = obj["history"][-30:] when longer than 30
TrimHistory(h) ==
    IF Len(h) > HistoryCap THEN SubSeq(h, Len(h) - HistoryCap + 1, Len(h)) ELSE h

\* an update that scores its objects again: each success lowers the
\* confidence by one
UpdateOneRescoring(obj, out) ==
    LET r == TrackerUpdate(obj.tracker, out)
    IN  IF r[1] = "ok"
        THEN << [obj EXCEPT !.tracker.bbox = r[2],
                            !.bbox = r[2],
                            !.confidence = @ - 1,
                            !.history = TrimHistory(Append(@, r[2]))],
                << [id |-> obj.id, class_id |-> obj.class_id,
                    class_name |-> obj.class_name, confidence |-> obj.confidence - 1,
                    bbox |-> ToCorners(r[2])] >> >>
        ELSE << obj, <<>> >>

\* the body of the for loop of ObjectTracker.update, for one object:
\* <<the object afterwards, the records it adds to results>>
UpdateOne(obj, out) ==
    LET r == TrackerUpdate(obj.tracker, out)
    IN  IF r[1] = "ok"
        THEN << [obj EXCEPT !.tracker.bbox = r[2],
                            !.bbox = r[2],
                            !.history = TrimHistory(Append(@, r[2]))],
                << [id |-> obj.id, class_id |-> obj.class_id,
                    class_name |-> obj.class_name, confidence |-> obj.confidence,
                    bbox |-> ToCorners(r[2])] >> >>
        ELSE << obj, <<>> >>

RECURSIVE UpdateResults(_, _, _)
UpdateResults(objs, outs, i) ==
    IF i > Len(objs) THEN <<>>
    ELSE UpdateOne(objs[i], outs[i])[2] \o UpdateResults(objs, outs, i + 1)

\* an update that throws away the store when one of its trackers has missed
TrackerUpdateStoreDropping(t, outs) ==
    IF \E i \in 1..Len(t.tracked_objects) :
            UpdateOne(t.tracked_objects[i], outs[i])[2] = <<>>
    THEN [t EXCEPT !.tracked_objects = <<>>]
    ELSE [t EXCEPT !.tracked_objects =
            [i \in 1..Len(t.tracked_objects) |-> UpdateOne(t.tracked_objects[i], outs[i])[1]]]

\* ObjectTracker.update(frame): the store afterwards
TrackerUpdateStore(t, outs) ==
    [t EXCEPT !.tracked_objects =
        [i \in 1..Len(t.tracked_objects) |-> UpdateOne(t.tracked_objects[i], outs[i])[1]]]

\* ObjectTracker.update(frame): the list it returns
TrackerUpdateResults(t, outs) == UpdateResults(t.tracked_objects, outs, 1)

\* how many of the outcomes make an OpenCV tracker miss
Misses(t, outs) ==
    Cardinality({i \in 1..Len(t.tracked_objects) :
                    t.tracked_objects[i].tracker.kind # "Dummy" /\ outs[i] # "ok"})

\* the outcomes that matter: a dummy tracker has one answer only
InitOuts(n, api) ==
    IF api = "none" THEN {[i \in 1..n |-> "ok"]} ELSE SeqsOf(Outcomes, n)

UpdateOuts(t) ==
    {o \in SeqsOf(Outcomes, Len(t.tracked_objects)) :
        \A i \in 1..Len(o) : t.tracked_objects[i].tracker.kind = "Dummy" => o[i] = "ok"}

\* whether tracker.init raises for one of the detections, if init is called
\* with these outcomes
InitRaised(outs, api) == api # "none" /\ "raise" \in Range(outs)

\* whether tracker.update raises for one of the objects, if update is
\* called with these outcomes (drawn from UpdateOuts)
UpdateRaised(outs) == "raise" \in Range(outs)

Ids(t) == {t.tracked_objects[i].id : i \in 1..Len(t.tracked_objects)}

\* the ids a call has added, in order
NewIds(t) == [i \in 1..Len(t.tracked_objects) |-> t.tracked_objects[i].id]

----------------------------------------------------------------------------
(* The tracker store on its own: any sequence of init / update /           *)
(* reinitialize calls on one ObjectTracker.                                *)

NoLast == [op |-> "none"]

IdleRest ==
    /\ use_agents = FALSE
    /\ detection_agent = [frame_count |-> 0, last_detections |-> <<>>]
    /\ tracking_agent = [frame_count |-> 0, initialized |-> FALSE, last_tracks |-> <<>>]
    /\ stats = [frames_processed |-> 0, total_detections |-> 0, total_tracks |-> 0,
                detection_classes |-> <<>>]
    /\ driver = <<>>
    /\ processing_status = <<>>
    /\ detection_results = <<>>
    /\ results_files = <<>>
    /\ processing_jobs = <<>>
    /\ response = NoLast

StoreInit ==
    /\ cv2api \in Cv2Apis
    /\ tracker \in {[NewObjectTracker EXCEPT !.tracker_type = type] : type \in TrackerTypes}
    /\ faults = 0
    /\ calls = [inits |-> 0, updates |-> 0]
    /\ last = NoLast
    /\ assigned = <<>>
    /\ live_counts = {}
    /\ IdleRest

StoreRest ==
    UNCHANGED <<cv2api, use_agents, detection_agent, tracking_agent, stats, driver,
                processing_status, detection_results, results_files,
                processing_jobs, response, live_counts>>

StoreCall(op, detections, outs) ==
    LET t2 == IF op = "init" THEN TrackerInit(tracker, detections, outs, cv2api)
              ELSE TrackerReinitialize(tracker, detections, outs, cv2api)
    IN  /\ tracker' = t2
        /\ last' = [op |-> op, before |-> tracker, detections |-> detections,
                    outs |-> outs, results |-> <<>>]
        /\ assigned' = assigned \o NewIds(t2)
        /\ calls' = [inits |-> calls.inits + 1, updates |-> 0]
        /\ UNCHANGED faults
        /\ StoreRest

CallInit ==
    /\ calls.inits < MaxInits
    /\ \E detections \in DetectionLists :
         \E outs \in InitOuts(Len(detections), cv2api) :
            StoreCall("init", detections, outs)

CallReinitialize ==
    /\ calls.inits < MaxInits
    /\ \E detections \in DetectionLists :
         \E outs \in InitOuts(Len(detections), cv2api) :
            StoreCall("reinitialize", detections, outs)

CallUpdate ==
    /\ calls.updates < MaxUpdates
    /\ \E outs \in UpdateOuts(tracker) :
        /\ faults + Misses(tracker, outs) <= MaxFaults
        /\ tracker' = TrackerUpdateStore(tracker, outs)
        /\ last' = [op |-> "update", before |-> tracker, detections |-> <<>>,
                    outs |-> outs, results |-> TrackerUpdateResults(tracker, outs)]
        /\ faults' = faults + Misses(tracker, outs)
        /\ calls' = [calls EXCEPT !.updates = @ + 1]
        /\ UNCHANGED assigned
        /\ StoreRest

StoreNext == CallInit \/ CallReinitialize \/ CallUpdate

SpecStore == StoreInit /\ [][StoreNext]_vars

----------------------------------------------------------------------------
(* agents/base_agent.py, detection_agent.py, tracking_agent.py,            *)
(* coordinator.py.  The three agents of a CoordinatorAgent are one value   *)
(* A = [trk, det, tra, stats, ops]: the tracking agent's ObjectTracker,    *)
(* the DetectionAgent, the TrackingAgent, the coordinator's stats, and the *)
(* calls made on the store while a frame is handled.                       *)

Put(d, k, v) == [x \in DOMAIN d \cup {k} |-> IF x = k THEN v ELSE d[x]]

\* a tag that counts the frames from 1, as the agents' own counters do
TagOneBased(records, n) ==
    [i \in 1..Len(records) |->
        [k \in DOMAIN records[i] \cup {"frame_number"} |->
            IF k = "frame_number" THEN n + 1 ELSE records[i][k]]]

\* obj["frame_number"] = n for every record of a list
Tag(records, n) ==
    [i \in 1..Len(records) |->
        [k \in DOMAIN records[i] \cup {"frame_number"} |->
            IF k = "frame_number" THEN n ELSE records[i][k]]]

\* DetectionAgent.__init__ / TrackingAgent.__init__ / the stats dictionary
NewDetectionAgent == [frame_count |-> 0, last_detections |-> <<>>]

NewTrackingAgent == [frame_count |-> 0, initialized |-> FALSE, last_tracks |-> <<>>]

NewStats == [frames_processed |-> 0, total_detections |-> 0, total_tracks |-> 0,
             detection_classes |-> <<>>]

\* connected_agents of each agent after CoordinatorAgent.__init__
ConnectedAgents(agent_id) ==
    CASE agent_id = "coordinator_1" -> <<"detection_1", "tracking_1">>
      [] agent_id = "detection_1"   -> <<"coordinator_1", "tracking_1">>
      [] agent_id = "tracking_1"    -> <<"coordinator_1", "detection_1">>

\* the age, in the tracking agent's frames, up to which `detection_results`
\* and `new_detections` are taken
ResultsMaxAge == 5
DetectionsMaxAge == 2

\* (mutant) detections are taken whatever their frame number
TrackingReceiveAlways(A, sender_id, message_type, content, outs, api) ==
    IF message_type = "new_detections"
    THEN [A EXCEPT !.trk = TrackerReinitialize(A.trk, content.detections, outs, api),
                   !.tra.initialized = TRUE,
                   !.ops = Append(@, "reinitialize")]
    ELSE A

\* TrackingAgent.receive_message
TrackingReceive(A, sender_id, message_type, content, outs, api) ==
    IF /\ message_type = "detection_results"
       /\ content.frame_number >= A.tra.frame_count - ResultsMaxAge
       /\ sender_id \in Range(ConnectedAgents("tracking_1"))
    THEN [A EXCEPT !.trk = TrackerInit(A.trk, content.detections, outs, api),
                   !.tra.initialized = TRUE,
                   !.ops = Append(@, "init")]
    ELSE IF /\ message_type = "new_detections"
            /\ content.frame_number >= A.tra.frame_count - DetectionsMaxAge
            /\ sender_id \in Range(ConnectedAgents("tracking_1"))
    THEN [A EXCEPT !.trk = TrackerReinitialize(A.trk, content.detections, outs, api),
                   !.tra.initialized = TRUE,
                   !.ops = Append(@, "reinitialize")]
    ELSE A

\* recipient.receive_message(sender_id, message_type, content): the
\* tracking agent's, the detection agent's (DetectionAgent.receive_message
\* answers request_detections with detection_results), or BaseAgent's
RECURSIVE ReceiveMessage(_, _, _, _, _, _, _)
ReceiveMessage(A, recipient, sender_id, message_type, content, outs, api) ==
    CASE recipient = "tracking_1" ->
            TrackingReceive(A, sender_id, message_type, content, outs, api)
      [] recipient = "detection_1" ->
            IF /\ message_type = "request_detections"
               /\ sender_id \in Range(ConnectedAgents("detection_1"))
            THEN ReceiveMessage(A, sender_id, "detection_1", "detection_results",
                                [frame_number |-> A.det.frame_count,
                                 detections |-> A.det.last_detections], outs, api)
            ELSE A
      [] OTHER -> A

\* BaseAgent.send_message, called on agent `self`
SendMessage(A, self, recipient_id, message_type, content, outs, api) ==
    IF recipient_id \in Range(ConnectedAgents(self))
    THEN ReceiveMessage(A, recipient_id, self, message_type, content, outs, api)
    ELSE A

\* BaseAgent.broadcast, called on agent `self`
RECURSIVE BroadcastFrom(_, _, _, _, _, _, _)
BroadcastFrom(A, self, i, message_type, content, outs, api) ==
    IF i > Len(ConnectedAgents(self)) THEN A
    ELSE BroadcastFrom(
            ReceiveMessage(A, ConnectedAgents(self)[i], self, message_type, content,
                           outs, api),
            self, i + 1, message_type, content, outs, api)

Broadcast(A, self, message_type, content, outs, api) ==
    BroadcastFrom(A, self, 1, message_type, content, outs, api)

\* DetectionAgent.process(frame), the detector returning `found`:
\* [A |-> the agents afterwards, out |-> the list returned]
DetectionProcess(A, found, outs, api) ==
    LET n == A.det.frame_count + 1
        detections == Tag(found, n)
        A1 == [A EXCEPT !.det.frame_count = n,
                        !.det.last_detections = detections,
                        !.ops = Append(@, "detect")]
        A2 == IF detections # <<>>
              THEN Broadcast(A1, "detection_1", "new_detections",
                             [frame_number |-> n, detections |-> detections], outs, api)
              ELSE A1
    IN  [A |-> A2, out |-> detections]

\* TrackingAgent.process(frame), the trackers answering `uouts`
TrackingProcess(A, uouts, outs, api) ==
    LET n == A.tra.frame_count + 1
        A1 == [A EXCEPT !.tra.frame_count = n]
    IN  IF ~A1.tra.initialized
        THEN [A |-> SendMessage(A1, "detection_1", "tracking_1", "request_detections",
                                [frame_number |-> n], outs, api),
              out |-> <<>>]
        ELSE LET tracking_results == Tag(TrackerUpdateResults(A1.trk, uouts), n)
                 A2 == [A1 EXCEPT !.trk = TrackerUpdateStore(A1.trk, uouts),
                                  !.tra.last_tracks = tracking_results,
                                  !.ops = Append(@, "update")]
                 A3 == IF tracking_results # <<>>
                       THEN Broadcast(A2, "tracking_1", "new_tracks",
                                      [frame_number |-> n, tracks |-> tracking_results],
                                      outs, api)
                       ELSE A2
             IN  [A |-> A3, out |-> tracking_results]

\* class_counts[class_name] += 1 (or = 1) for every record of a list
CountClasses(counts, records) ==
    LET seen(c) == Cardinality({i \in 1..Len(records) : records[i].class_name = c})
    IN  [c \in DOMAIN counts \cup {records[i].class_name : i \in 1..Len(records)} |->
            IF c \in DOMAIN counts THEN counts[c] + seen(c) ELSE seen(c)]

\* the interval CoordinatorAgent.process detects at
CoordinatorInterval == 15

\* (mutant) detection on every frame but the scheduled ones
IsDetectionFrameShifted(n, interval) == n % interval = 1

\* frame_count % detection_interval == 0 or frame_count == 0
IsDetectionFrame(n, interval) == n % interval = 0 \/ n = 0


\* CoordinatorAgent.process, first half: the detection agent's turn on the
\* frames the coordinator schedules, and the statistics of what it found
CoordinatorDetect(A, found, outs, api) ==
    IF IsDetectionFrame(A.stats.frames_processed, CoordinatorInterval)
    THEN LET r == DetectionProcess(A, found, outs, api)
         IN  [A |-> [r.A EXCEPT
                        !.stats.total_detections = @ + Len(r.out),
                        !.stats.detection_classes = CountClasses(@, r.out)],
              out |-> r.out]
    ELSE [A |-> A, out |-> <<>>]

\* a coordinator that counts only the frames that have brought tracks
CoordinatorTrackUncounted(A, uouts, outs, api) ==
    LET r == TrackingProcess(A, uouts, outs, api)
    IN  [A |-> [r.A EXCEPT !.stats.total_tracks = @ + Len(r.out),
                           !.stats.frames_processed =
                                IF r.out = <<>> THEN @ ELSE @ + 1],
         out |-> r.out]

\* CoordinatorAgent.process, second half: the tracking agent's turn, on
\* every frame, and the frame counter
CoordinatorTrack(A, uouts, outs, api) ==
    LET r == TrackingProcess(A, uouts, outs, api)
    IN  [A |-> [r.A EXCEPT !.stats.total_tracks = @ + Len(r.out),
                           !.stats.frames_processed = @ + 1],
         out |-> r.out]

\* CoordinatorAgent.reset_statistics
ResetStatistics(A) == [A EXCEPT !.stats = NewStats]

----------------------------------------------------------------------------
(* utils/processor.py: VideoProcessor.process_video, and api/routes.py:    *)
(* upload_video and run_video_processing, the worker thread of one job.    *)

\* the analysis ids, in the order of their uploads
JobOrder == <<"a", "b">>

JobIds == Range(JobOrder)

\* the frames on which the video makes an OpenCV tracker lose its object
HardFrames == {2, 16}

\* frames a video of the pipeline runs has at most
MaxFrames == 45

\* the lengths of the videos: cap.read() runs out of frames after so many
VideoLengths(maxf) == {0, 1, 16, 45, maxf}

\* frames a video has at most when two jobs share the processor
MaxShortFrames == 2

\* frames a video has at most when the writer of its output has not opened
MaxUnwrittenFrames == 11

\* detection_interval: int = 15
DefaultDetectionInterval == 15

\* if frame_count % 10 == 0
ProgressEvery == 10

NoResults == [analysis_id |-> NoId]

IdleDriver ==
    [pc |-> "idle", frame_count |-> 0, total_frames |-> 0,
     detection_interval |-> DefaultDetectionInterval, all_detections |-> <<>>,
     results |-> NoResults, message |-> "",
     \* out: whether the cv2.VideoWriter of the output video has opened
     writer_opened |-> TRUE,
     \* for the properties: what detect() returned on the frames it ran on,
     \* whether a tracker has failed to start or to follow its object, and
     \* the ids the store held when this job's last frame was done
     detect_found |-> <<>>, tracker_missed |-> FALSE, ids_left |-> {}]

StatusRecord(status, progress, message) ==
    [status |-> status, progress |-> progress, message |-> message]

\* the status a processor writes when it is done: it names the results file
CompletedRecord(j, message) ==
    [status |-> "completed", progress |-> 100, message |-> message, results_file |-> j]

Min(a, b) == IF a < b THEN a ELSE b

\* the most frames the video of a job has
MaxLength(d, maxf) == IF d.writer_opened THEN maxf ELSE Min(maxf, MaxUnwrittenFrames)

\* a progress that is not cut at 100
ProgressUncut(frame_count, total_frames) == (frame_count * 100) \div total_frames

\* min(100, int((frame_count / total_frames) * 100))
Progress(frame_count, total_frames) == Min(100, (frame_count * 100) \div total_frames)

\* the agents as one value, and back
Agents == [trk |-> tracker, det |-> detection_agent, tra |-> tracking_agent,
           stats |-> stats, ops |-> <<>>]

\* the outcomes the trackers may have on frame n
FrameUpdateOuts(t, n) ==
    IF n \in HardFrames THEN UpdateOuts(t)
    ELSE {[i \in 1..Len(t.tracked_objects) |-> "ok"]}

\* what detect() may return when it is called on a frame
DetectorInputs(called) == IF called THEN DetectionLists ELSE {<<>>}

InitInputs(called, found, api) ==
    IF called THEN InitOuts(Len(found), api) ELSE {<<>>}

\* the direct branch of the frame loop (use_agents = False), frame n:
\* [trk, ops, detections, tracks]
DirectFrame(t, n, interval, found, outs, uouts, api) ==
    IF IsDetectionFrame(n, interval)
    THEN [trk |-> IF found # <<>> THEN TrackerReinitialize(t, found, outs, api) ELSE t,
          ops |-> IF found # <<>> THEN <<"detect", "reinitialize">> ELSE <<"detect">>,
          detections |-> Tag(found, n),
          tracks |-> <<>>]
    ELSE [trk |-> TrackerUpdateStore(t, uouts),
          ops |-> <<"update">>,
          detections |-> <<>>,
          tracks |-> Tag(TrackerUpdateResults(t, uouts), n)]

\* the agent branch of the frame loop (use_agents = True), frame n: the
\* coordinator's result, its records tagged with the driver's frame number
\* (they are the very records last_detections and last_tracks hold)
AgentFrame(A, n, found, outs, uouts, api) ==
    LET d == CoordinatorDetect(A, found, outs, api)
        r == CoordinatorTrack(d.A, uouts, outs, api)
        detected == "detect" \in Range(r.A.ops)
        updated  == "update" \in Range(r.A.ops)
    IN  [A |-> [r.A EXCEPT
                  !.det.last_detections = IF detected THEN Tag(@, n) ELSE @,
                  !.tra.last_tracks = IF updated THEN Tag(@, n) ELSE @],
         detections |-> Tag(d.out, n),
         tracks |-> Tag(r.out, n)]

\* the statistics and the results dictionary at the end of the frame loop
MakeResults(j, d, st, agents) ==
    [analysis_id |-> j,
     total_frames |-> d.total_frames,
     processed_frames |-> d.frame_count,
     detections |-> d.all_detections,
     summary |->
        IF agents
        THEN [total_detections |-> st.total_detections,
              class_counts |-> st.detection_classes]
        ELSE [total_detections |-> Len(d.all_detections),
              class_counts |-> CountClasses(<<>>, d.all_detections)]]

\* {k: v for k, v in det.items() if k != "tracker"}, and json.dump
Serializable(results) ==
    [results EXCEPT !.detections =
        [i \in 1..Len(@) |-> [k \in DOMAIN @[i] \ {"tracker"} |-> @[i][k]]]]

PipeInit ==
    /\ cv2api \in {"new", "none"}
    /\ use_agents \in BOOLEAN
    /\ tracker = NewObjectTracker
    /\ detection_agent = NewDetectionAgent
    /\ tracking_agent = NewTrackingAgent
    /\ stats = NewStats
    /\ driver = [j \in JobIds |-> IdleDriver]
    /\ processing_status = <<>>
    /\ detection_results = <<>>
    /\ results_files = <<>>
    /\ processing_jobs = <<>>
    /\ response = NoLast
    /\ faults = 0
    /\ calls = [inits |-> 0, updates |-> 0]
    /\ last = NoLast
    /\ assigned = <<>>
    /\ live_counts = {}

Ghosts == <<faults, calls, assigned>>

Processor == <<tracker, detection_agent, tracking_agent, stats, live_counts>>

\* upload_video: the registry entry, then the thread
Upload(j) ==
    /\ driver[j].pc = "idle"
    /\ \A k \in 1..(Len(JobOrder) - 1) :
            JobOrder[k + 1] = j => driver[JobOrder[k]].pc # "idle"
    /\ processing_jobs' = Put(processing_jobs, j,
            StatusRecord("queued", 0, "Video uploaded, queued for processing"))
    /\ driver' = [driver EXCEPT ![j].pc = "queued"]
    /\ response' = NoLast
    /\ UNCHANGED <<cv2api, use_agents, Processor, processing_status, detection_results,
                   results_files, last, Ghosts>>

\* run_video_processing: status processing
WorkerStart(j) ==
    /\ driver[j].pc = "queued"
    /\ processing_jobs' = Put(processing_jobs, j,
            StatusRecord("processing", 0, "Processing video in background"))
    /\ driver' = [driver EXCEPT ![j].pc = "call"]
    /\ response' = NoLast
    /\ UNCHANGED <<cv2api, use_agents, Processor, processing_status, detection_results,
                   results_files, last, Ghosts>>

\* process_video: the first status write
ProcessVideoBegin(j) ==
    /\ driver[j].pc = "call"
    /\ processing_status' = Put(processing_status, j,
            StatusRecord("processing", 0, "Starting video processing"))
    /\ driver' = [driver EXCEPT ![j].pc = "open"]
    /\ response' = NoLast
    /\ UNCHANGED <<cv2api, use_agents, Processor, detection_results, results_files,
                   processing_jobs, last, Ghosts>>

\* what OpenCV reports of a video that opens: CAP_PROP_FRAME_COUNT (0 when
\* the container does not tell, the true maximum, or half of it), and
\* whether the cv2.VideoWriter of the output video has opened
VideoProperties(maxf) ==
    {[total_frames |-> 0, writer_opened |-> TRUE],
     [total_frames |-> maxf, writer_opened |-> TRUE]}
    \cup IF maxf >= MaxFrames
         THEN {[total_frames |-> MaxUnwrittenFrames \div 2, writer_opened |-> FALSE]}
         ELSE {}

\* process_video: cv2.VideoCapture, the video's properties, the writer, the
\* locals, and coordinator.reset_statistics
OpenVideo(j, maxf) ==
    /\ driver[j].pc = "open"
    /\ \/ /\ driver' = [driver EXCEPT ![j].pc = "except",
                                      ![j].message = "Could not open video file"]
          /\ UNCHANGED <<stats, live_counts>>
       \/ \E video \in VideoProperties(maxf) :
            /\ driver' = [driver EXCEPT ![j].pc = "loop",
                                        ![j].total_frames = video.total_frames,
                                        ![j].writer_opened = video.writer_opened,
                                        ![j].frame_count = 0,
                                        ![j].all_detections = <<>>,
                                        ![j].ids_left = Ids(tracker)]
            /\ stats' = IF use_agents THEN NewStats ELSE stats
            \* the new statistics have a new dictionary of class counts
            /\ live_counts' = IF use_agents THEN {} ELSE live_counts
    /\ response' = NoLast
    /\ UNCHANGED <<cv2api, use_agents, tracker, detection_agent, tracking_agent,
                   processing_status, detection_results, results_files,
                   processing_jobs, last, Ghosts>>

\* the frame loop: cap.read() has no frame left
EndOfVideo(j, maxf) ==
    /\ driver[j].pc = "loop"
    /\ driver[j].frame_count \in VideoLengths(MaxLength(driver[j], maxf))
    /\ driver' = [driver EXCEPT ![j].pc = "finish"]
    /\ response' = NoLast
    /\ UNCHANGED <<cv2api, use_agents, Processor, processing_status, detection_results,
                   results_files, processing_jobs, last, Ghosts>>

\* a results dictionary whose summary["class_counts"] is the dictionary the
\* coordinator counts in, after the coordinator has counted
Recount(results, counts) == [results EXCEPT !.summary.class_counts = counts]

\* a dictionary of jobs' results or registry entries, after the coordinator
\* has counted in the dictionary that the results of the jobs in live_counts hold
RecountResults(d, counts) ==
    [b \in DOMAIN d |-> IF b \in live_counts THEN Recount(d[b], counts) ELSE d[b]]

RecountJobs(d, counts) ==
    [b \in DOMAIN d |->
        IF b \in live_counts /\ "result" \in DOMAIN d[b]
        THEN [d[b] EXCEPT !.result = Recount(@, counts)]
        ELSE d[b]]

\* the rest of one iteration, once the frame's records are known: the
\* progress written every 10 frames, and the frame counter.  For the
\* properties, `last` keeps whether a tracker.init or tracker.update of this
\* frame would raise (it has raised if ops has the call).
AfterFrame(j, ops, before, detections, tracks, missed, init_raised, update_raised, counts) ==
    LET d == driver[j]
        others == [b \in DOMAIN driver |->
                      IF b \in live_counts THEN [driver[b] EXCEPT !.results = Recount(@, counts)]
                      ELSE driver[b]]
        n == d.frame_count
        d1 == [d EXCEPT !.all_detections = @ \o detections \o tracks,
                        !.detect_found =
                            IF "detect" \in Range(ops) THEN Put(@, n, detections) ELSE @,
                        !.tracker_missed = @ \/ missed,
                        !.ids_left = Ids(tracker')]
    IN  /\ last' = [op |-> "frame", job |-> j, index |-> n, before |-> before,
                    detections |-> detections, ops |-> ops, results |-> tracks,
                    ids_expected |-> d.ids_left,
                    init_raised |-> init_raised, update_raised |-> update_raised]
        /\ response' = NoLast
        /\ IF n % ProgressEvery = 0 /\ d.total_frames = 0
           THEN /\ driver' = [others EXCEPT ![j] =
                                [d1 EXCEPT !.pc = "except", !.message = "division by zero"]]
                /\ UNCHANGED processing_status
           ELSE /\ driver' = [others EXCEPT ![j] = [d1 EXCEPT !.frame_count = n + 1]]
                /\ processing_status' =
                     IF n % ProgressEvery = 0
                     THEN Put(processing_status, j,
                              StatusRecord("processing", Progress(n, d.total_frames),
                                           "Processing frame"))
                     ELSE processing_status

\* one iteration of the frame loop on a frame, use_agents = False
FrameDirect(j, maxf) ==
    LET n == driver[j].frame_count
        called == IsDetectionFrame(n, driver[j].detection_interval)
    IN  /\ driver[j].pc = "loop"
        /\ ~use_agents
        /\ n < MaxLength(driver[j], maxf)
        /\ \E found \in DetectorInputs(called) :
           \E outs \in InitInputs(called /\ found # <<>>, found, cv2api) :
           \E uouts \in FrameUpdateOuts(tracker, n) :
           \E r \in {DirectFrame(tracker, n, driver[j].detection_interval,
                                 found, outs, uouts, cv2api)} :
              /\ tracker' = r.trk
              /\ AfterFrame(j, r.ops, tracker, r.detections, r.tracks,
                            IF called
                            THEN Len(r.trk.tracked_objects) < Len(found)
                            ELSE Len(r.tracks) < Len(tracker.tracked_objects),
                            InitRaised(outs, cv2api), UpdateRaised(uouts),
                            stats.detection_classes)
        /\ UNCHANGED <<cv2api, use_agents, detection_agent, tracking_agent, stats,
                       live_counts, detection_results, results_files, processing_jobs,
                       Ghosts>>

\* one iteration of the frame loop on a frame, use_agents = True
FrameAgents(j, maxf) ==
    LET n == driver[j].frame_count
        called == IsDetectionFrame(stats.frames_processed, CoordinatorInterval)
    IN  /\ driver[j].pc = "loop"
        /\ use_agents
        /\ n < MaxLength(driver[j], maxf)
        /\ \E found \in DetectorInputs(called) :
           \E outs \in InitInputs(called, found, cv2api) :
           \E d \in {CoordinatorDetect(Agents, found, outs, cv2api)} :
           \E uouts \in FrameUpdateOuts(d.A.trk, n) :
           \E r \in {AgentFrame(Agents, n, found, outs, uouts, cv2api)} :
              /\ tracker' = r.A.trk
              /\ detection_agent' = r.A.det
              /\ tracking_agent' = r.A.tra
              /\ stats' = r.A.stats
              /\ AfterFrame(j, r.A.ops, tracker, r.detections, r.tracks,
                    \/ /\ "reinitialize" \in Range(r.A.ops)
                       /\ Len(d.A.trk.tracked_objects) < Len(found)
                    \/ /\ "update" \in Range(r.A.ops)
                       /\ Len(r.tracks) < Len(d.A.trk.tracked_objects),
                    InitRaised(outs, cv2api), UpdateRaised(uouts),
                    r.A.stats.detection_classes)
              /\ detection_results' =
                    RecountResults(detection_results, r.A.stats.detection_classes)
              /\ processing_jobs' =
                    RecountJobs(processing_jobs, r.A.stats.detection_classes)
        /\ UNCHANGED <<cv2api, use_agents, live_counts, results_files, Ghosts>>

\* the statistics, the results dictionary and the results file
WriteResults(j) ==
    /\ driver[j].pc = "finish"
    /\ LET results == MakeResults(j, driver[j], stats, use_agents)
       IN  /\ driver' = [driver EXCEPT ![j].pc = "publish", ![j].results = results]
           /\ results_files' = Put(results_files, j, Serializable(results))
    \* class_counts = agent_stats["detection_classes"], the dictionary itself
    /\ live_counts' = IF use_agents THEN live_counts \cup {j} ELSE live_counts
    /\ response' = NoLast
    /\ UNCHANGED <<cv2api, use_agents, tracker, detection_agent, tracking_agent, stats,
                   processing_status, detection_results, processing_jobs, last, Ghosts>>

\* processing_status[analysis_id] = completed
PublishCompleted(j) ==
    /\ driver[j].pc = "publish"
    /\ processing_status' = Put(processing_status, j,
            CompletedRecord(j, "Video processing completed"))
    /\ driver' = [driver EXCEPT ![j].pc = "store"]
    /\ response' = NoLast
    /\ UNCHANGED <<cv2api, use_agents, Processor, detection_results, results_files,
                   processing_jobs, last, Ghosts>>

\* detection_results[analysis_id] = results, and the return
StoreResults(j) ==
    /\ driver[j].pc = "store"
    /\ detection_results' = Put(detection_results, j, driver[j].results)
    /\ driver' = [driver EXCEPT ![j].pc = "return"]
    /\ response' = NoLast
    /\ UNCHANGED <<cv2api, use_agents, Processor, processing_status, results_files,
                   processing_jobs, last, Ghosts>>

\* run_video_processing: status completed, with the result
WorkerCompleted(j) ==
    /\ driver[j].pc = "return"
    /\ processing_jobs' = Put(processing_jobs, j,
            [status |-> "completed", progress |-> 100,
             message |-> "Processing completed successfully",
             result |-> driver[j].results])
    /\ driver' = [driver EXCEPT ![j].pc = "done"]
    /\ response' = NoLast
    /\ UNCHANGED <<cv2api, use_agents, Processor, processing_status, detection_results,
                   results_files, last, Ghosts>>

\* an except clause that keeps what the frame loop has gathered as a result
ProcessVideoExceptStoring(j) ==
    /\ driver[j].pc = "except"
    /\ processing_status' = Put(processing_status, j,
            StatusRecord("error", 0, driver[j].message))
    /\ detection_results' = Put(detection_results, j,
            MakeResults(j, driver[j], stats, use_agents))
    /\ driver' = [driver EXCEPT ![j].pc = "raised"]
    /\ response' = NoLast
    /\ UNCHANGED <<cv2api, use_agents, Processor, results_files,
                   processing_jobs, last, Ghosts>>

\* process_video's except clause: status error, and the exception goes on
ProcessVideoExcept(j) ==
    /\ driver[j].pc = "except"
    /\ processing_status' = Put(processing_status, j,
            StatusRecord("error", 0, driver[j].message))
    /\ driver' = [driver EXCEPT ![j].pc = "raised"]
    /\ response' = NoLast
    /\ UNCHANGED <<cv2api, use_agents, Processor, detection_results, results_files,
                   processing_jobs, last, Ghosts>>

\* a worker that puts a failed job back in the queue
FailedRecordRequeued == StatusRecord("queued", 0, "Processing failed")

\* the registry entry run_video_processing writes in its except clause
FailedRecord == StatusRecord("error", 0, "Processing failed")

\* a worker that ends after an exception without a word
WorkerFailedSilent(j) ==
    /\ driver[j].pc = "raised"
    /\ driver' = [driver EXCEPT ![j].pc = "done"]
    /\ response' = NoLast
    /\ UNCHANGED <<cv2api, use_agents, Processor, processing_status, detection_results,
                   results_files, processing_jobs, last, Ghosts>>

\* run_video_processing's except clause
WorkerFailed(j) ==
    /\ driver[j].pc = "raised"
    /\ processing_jobs' = Put(processing_jobs, j, FailedRecord)
    /\ driver' = [driver EXCEPT ![j].pc = "done"]
    /\ response' = NoLast
    /\ UNCHANGED <<cv2api, use_agents, Processor, processing_status, detection_results,
                   results_files, last, Ghosts>>

\* a job from upload to its last status, on videos of at most maxf frames
JobStep(j, maxf) ==
    \/ Upload(j)
    \/ WorkerStart(j)
    \/ ProcessVideoBegin(j)
    \/ OpenVideo(j, maxf)
    \/ FrameDirect(j, maxf)
    \/ FrameAgents(j, maxf)
    \/ EndOfVideo(j, maxf)
    \/ WriteResults(j)
    \/ PublishCompleted(j)
    \/ StoreResults(j)
    \/ WorkerCompleted(j)
    \/ ProcessVideoExcept(j)
    \/ WorkerFailed(j)

(* One job on a fresh processor *)

Next == JobStep("a", MaxFrames)

Spec == PipeInit /\ [][Next]_vars

-----------------------------------------------------------------------------
(* utils/processor.py: process_video called with a detection interval of   *)
(* the caller's, on short videos                                            *)

\* the values of detection_interval the callers pass
Intervals == {1, 2, 3}

\* frames a video of these runs has at most
MaxIntervalFrames == 4

IntervalInit ==
    /\ cv2api \in {"new", "none"}
    /\ use_agents \in BOOLEAN
    /\ tracker = NewObjectTracker
    /\ detection_agent = NewDetectionAgent
    /\ tracking_agent = NewTrackingAgent
    /\ stats = NewStats
    /\ driver \in {[j \in JobIds |-> [IdleDriver EXCEPT !.detection_interval = d]] :
                        d \in Intervals}
    /\ processing_status = <<>>
    /\ detection_results = <<>>
    /\ results_files = <<>>
    /\ processing_jobs = <<>>
    /\ response = NoLast
    /\ faults = 0
    /\ calls = [inits |-> 0, updates |-> 0]
    /\ last = NoLast
    /\ assigned = <<>>
    /\ live_counts = {}

NextInterval == JobStep("a", MaxIntervalFrames)

SpecInterval == IntervalInit /\ [][NextInterval]_vars

\* frames a video of the scheduled runs has at most
MaxScheduledFrames == 2

NextScheduled == JobStep("a", MaxScheduledFrames)

\* the runs of a worker thread that keeps being scheduled: whenever the job
\* has a next step, it is taken in the end
SpecScheduled == IntervalInit /\ [][NextScheduled]_vars /\ WF_vars(NextScheduled)

----------------------------------------------------------------------------
(* Two uploads served by the one processor of api/routes.py, each on its   *)
(* own worker thread, and the clients' queries.  The job uploaded first is *)
(* "a"; until the second upload "b" is an id the service does not know.    *)
(* The build is one without OpenCV's trackers (DummyTracker).              *)

QueryIds == JobIds

\* get_status answering an unknown id as if it were waiting
ProcessorGetStatusQueued(analysis_id) ==
    IF analysis_id \in DOMAIN processing_status
    THEN processing_status[analysis_id]
    ELSE StatusRecord("queued", 0, "No analysis found with ID")

\* VideoProcessor.get_status
ProcessorGetStatus(analysis_id) ==
    IF analysis_id \in DOMAIN processing_status
    THEN processing_status[analysis_id]
    ELSE StatusRecord("not_found", 0, "No analysis found with ID")

\* a get_results that looks in memory only
ProcessorGetResultsMemoryOnly(analysis_id) ==
    IF analysis_id \in DOMAIN detection_results THEN detection_results[analysis_id]
    ELSE NoResults

\* results made up for an id that has none
ProcessorGetResultsEmpty(analysis_id) ==
    IF analysis_id \in DOMAIN detection_results THEN detection_results[analysis_id]
    ELSE IF analysis_id \in DOMAIN results_files THEN results_files[analysis_id]
    ELSE [analysis_id |-> analysis_id]

\* VideoProcessor.get_results: the results in memory, else the results file
ProcessorGetResults(analysis_id) ==
    IF analysis_id \in DOMAIN detection_results THEN detection_results[analysis_id]
    ELSE IF analysis_id \in DOMAIN results_files THEN results_files[analysis_id]
    ELSE NoResults

\* a view put together from both registries, field by field
StatusContentTorn(analysis_id) ==
    IF analysis_id \in DOMAIN processing_jobs
    THEN [k \in DOMAIN processing_jobs[analysis_id] \ {"result"} |->
            IF k = "progress" /\ analysis_id \in DOMAIN processing_status
            THEN processing_status[analysis_id][k]
            ELSE processing_jobs[analysis_id][k]]
    ELSE ProcessorGetStatus(analysis_id)

\* the content GET /status/{analysis_id} answers with
StatusContent(analysis_id) ==
    IF analysis_id \in DOMAIN processing_jobs
    THEN [k \in DOMAIN processing_jobs[analysis_id] \ {"result"} |->
            processing_jobs[analysis_id][k]]
    ELSE ProcessorGetStatus(analysis_id)

\* the content GET /results/{analysis_id} answers with
ResultsContent(analysis_id) ==
    IF /\ analysis_id \in DOMAIN processing_jobs
       /\ processing_jobs[analysis_id].status = "completed"
    THEN processing_jobs[analysis_id].result
    ELSE ProcessorGetResults(analysis_id)

\* GET /status/{analysis_id}
GetStatus(analysis_id) ==
    /\ response' =
          [op |-> "get_status", analysis_id |-> analysis_id,
           status_code |-> IF StatusContent(analysis_id).status = "not_found"
                           THEN 404 ELSE 200,
           content |-> StatusContent(analysis_id)]
    /\ UNCHANGED <<cv2api, use_agents, Processor, driver, processing_status,
                   detection_results, results_files, processing_jobs, last, Ghosts>>

\* GET /results/{analysis_id}
GetResults(analysis_id) ==
    /\ response' =
          [op |-> "get_results", analysis_id |-> analysis_id,
           status_code |-> IF ResultsContent(analysis_id) = NoResults
                           THEN 404 ELSE 200,
           content |-> ResultsContent(analysis_id)]
    /\ UNCHANGED <<cv2api, use_agents, Processor, driver, processing_status,
                   detection_results, results_files, processing_jobs, last, Ghosts>>

NextJobs ==
    \/ \E j \in JobIds : JobStep(j, MaxShortFrames)
    \/ \E analysis_id \in QueryIds : GetStatus(analysis_id)
    \/ \E analysis_id \in QueryIds : GetResults(analysis_id)

JobsInit == PipeInit /\ cv2api = "none"

SpecJobs == JobsInit /\ [][NextJobs]_vars

----------------------------------------------------------------------------
(* api/routes.py: the registry on its own, with more uploads than          *)
(* DELETE /cleanup keeps.  cleanup_old_jobs depends on the order of the    *)
(* dictionary, so here processing_jobs is the list of its items            *)
(* <<key, value>> in insertion order.  The analysis ids are 1, 2, ... in   *)
(* the order of the uploads, and driver[k] is the position of job k's      *)
(* worker with the time at which it finished (0: not yet).  process_video  *)
(* is two steps here, its first status write and the rest.  In             *)
(* SpecRegistry an upload comes when the job before it is done and each    *)
(* request is one step.                                                    *)

\* uploads in a run, workers that fail
MaxJobs == 11
MaxFailedJobs == 1

\* sorted_jobs[:10]
KeepJobs == 10

DictHas(d, k) == \E i \in 1..Len(d) : d[i][1] = k

DictKeys(d) == {d[i][1] : i \in 1..Len(d)}

DictGet(d, k) == d[CHOOSE i \in 1..Len(d) : d[i][1] = k][2]

\* d[k] = v: a key the dictionary has keeps its place, a new one goes last
DictSet(d, k, v) ==
    IF DictHas(d, k)
    THEN [i \in 1..Len(d) |-> IF d[i][1] = k THEN <<k, v>> ELSE d[i]]
    ELSE Append(d, <<k, v>>)

\* key=lambda x: x[1].get("completed_at", 0)
CompletedAtKey(item) ==
    IF "completed_at" \in DOMAIN item[2] THEN item[2].completed_at ELSE 0

\* sorted(items, key=..., reverse=True), keys[i] being the key of items[i]:
\* the largest key first, items of equal keys in the order they had
SortedReverse(items, keys) ==
    LET n == Len(items)
        place(i) ==
            1 + Cardinality({j \in 1..n : keys[j] > keys[i]})
              + Cardinality({j \in 1..(i - 1) : keys[j] = keys[i]})
    IN  [r \in 1..n |-> items[CHOOSE i \in 1..n : place(i) = r]]

\* the dictionary cleanup_old_jobs leaves
CleanupOldJobs(d) ==
    IF Len(d) > KeepJobs
    THEN SubSeq(SortedReverse(d, [i \in 1..Len(d) |-> CompletedAtKey(d[i])]), 1, KeepJobs)
    ELSE d

RegistryInit ==
    /\ cv2api = "none"
    /\ tracker = NewObjectTracker
    /\ faults = 0
    /\ calls = [inits |-> 0, updates |-> 0]
    /\ last = NoLast
    /\ assigned = <<>>
    /\ live_counts = {}
    /\ IdleRest

RegistryRest ==
    UNCHANGED <<cv2api, use_agents, Processor, Ghosts>>

ProcessorRest == UNCHANGED <<processing_status, detection_results, results_files>>

\* DELETE /cleanup is between its statements: it has sorted the items, or
\* sorted them and cleared the dictionary; `last` holds its sorted_jobs[:10]
Cleaning == last.op \in {"sorted", "cleared"}

\* `last` after a step of a worker thread: a cleanup under way goes on
AfterWorkerStep == IF Cleaning THEN last ELSE NoLast

Running == {k \in 1..Len(driver) : driver[k].pc # "done"}

Failed == {k \in 1..Len(driver) : driver[k].pc \in {"raised", "done"} /\ ~driver[k].completed}

\* how many workers run at a time: an upload comes when the job before it
\* is done, but for the upload that takes the registry over what a cleanup
\* keeps, which may come while the job before it runs
Workers == IF Len(driver) = KeepJobs THEN 2 ELSE 1

\* the time of the next completion
Clock == 1 + Cardinality({k \in 1..Len(driver) : driver[k].pc = "done"})

\* the results process_video returns for job k
RegistryResult(k) == [analysis_id |-> k]

\* upload_video: the registry entry of a new analysis id
RegistryUpload ==
    /\ ~Cleaning
    /\ Len(driver) < MaxJobs
    /\ Cardinality(Running) < Workers
    /\ processing_jobs' = DictSet(processing_jobs, Len(driver) + 1,
            StatusRecord("queued", 0, "Video uploaded, queued for processing"))
    /\ driver' = Append(driver, [pc |-> "queued", finished |-> 0, completed |-> FALSE])
    /\ response' = NoLast
    /\ last' = NoLast
    /\ ProcessorRest
    /\ RegistryRest

\* run_video_processing: status processing
RegistryWorkerStart(k) ==
    /\ driver[k].pc = "queued"
    /\ processing_jobs' = DictSet(processing_jobs, k,
            StatusRecord("processing", 0, "Processing video in background"))
    /\ driver' = [driver EXCEPT ![k].pc = "call"]
    /\ response' = NoLast
    /\ last' = AfterWorkerStep
    /\ ProcessorRest
    /\ RegistryRest

\* process_video: the first status write
RegistryProcessBegin(k) ==
    /\ driver[k].pc = "call"
    /\ processing_status' = Put(processing_status, k,
            StatusRecord("processing", 0, "Starting video processing"))
    /\ driver' = [driver EXCEPT ![k].pc = "run"]
    /\ response' = NoLast
    /\ last' = AfterWorkerStep
    /\ UNCHANGED <<processing_jobs, detection_results, results_files>>
    /\ RegistryRest

\* process_video: the results file, the status completed, the results in
\* memory, and the return
RegistryProcessEnd(k) ==
    /\ driver[k].pc = "run"
    /\ results_files' = Put(results_files, k, RegistryResult(k))
    /\ processing_status' = Put(processing_status, k,
            CompletedRecord(k, "Video processing completed"))
    /\ detection_results' = Put(detection_results, k, RegistryResult(k))
    /\ driver' = [driver EXCEPT ![k].pc = "return"]
    /\ response' = NoLast
    /\ last' = AfterWorkerStep
    /\ UNCHANGED processing_jobs
    /\ RegistryRest

\* process_video: an exception, and the except clause
RegistryProcessRaise(k) ==
    /\ driver[k].pc = "run"
    /\ Cardinality(Failed) < MaxFailedJobs
    /\ processing_status' = Put(processing_status, k,
            StatusRecord("error", 0, "Could not open video file"))
    /\ driver' = [driver EXCEPT ![k].pc = "raised"]
    /\ response' = NoLast
    /\ last' = AfterWorkerStep
    /\ UNCHANGED <<processing_jobs, detection_results, results_files>>
    /\ RegistryRest

\* run_video_processing: process_video has returned
RegistryWorkerCompleted(k) ==
    /\ driver[k].pc = "return"
    /\ processing_jobs' = DictSet(processing_jobs, k,
            [status |-> "completed", progress |-> 100,
             message |-> "Processing completed successfully",
             result |-> RegistryResult(k)])
    /\ driver' = [driver EXCEPT ![k] = [pc |-> "done", finished |-> Clock,
                                        completed |-> TRUE]]
    /\ response' = NoLast
    /\ last' = AfterWorkerStep
    /\ ProcessorRest
    /\ RegistryRest

\* run_video_processing: process_video has raised
RegistryWorkerFailed(k) ==
    /\ driver[k].pc = "raised"
    /\ processing_jobs' = DictSet(processing_jobs, k, FailedRecord)
    /\ driver' = [driver EXCEPT ![k] = [pc |-> "done", finished |-> Clock,
                                        completed |-> FALSE]]
    /\ response' = NoLast
    /\ last' = AfterWorkerStep
    /\ ProcessorRest
    /\ RegistryRest

\* a cleanup that also deletes what the processor keeps of the dropped jobs
CleanupPurging ==
    LET kept == DictKeys(CleanupOldJobs(processing_jobs))
        dropped == DictKeys(processing_jobs) \ kept
    IN  /\ processing_jobs' = CleanupOldJobs(processing_jobs)
        /\ last' = [op |-> "cleanup", before |-> processing_jobs,
                    after |-> CleanupOldJobs(processing_jobs)]
        /\ response' = [op |-> "cleanup", status_code |-> 200,
                        content |-> IF Len(processing_jobs) > KeepJobs
                                    THEN "Cleaned up old jobs" ELSE "No cleanup needed"]
        /\ detection_results' =
              [k \in DOMAIN detection_results \ dropped |-> detection_results[k]]
        /\ results_files' = [k \in DOMAIN results_files \ dropped |-> results_files[k]]
        /\ UNCHANGED <<driver, processing_status>>
        /\ RegistryRest

\* DELETE /cleanup
Cleanup ==
    /\ processing_jobs' = CleanupOldJobs(processing_jobs)
    /\ last' = [op |-> "cleanup", before |-> processing_jobs,
                after |-> CleanupOldJobs(processing_jobs)]
    /\ response' = [op |-> "cleanup", status_code |-> 200,
                    content |-> IF Len(processing_jobs) > KeepJobs
                                THEN "Cleaned up old jobs" ELSE "No cleanup needed"]
    /\ UNCHANGED driver
    /\ ProcessorRest
    /\ RegistryRest

\* the ids the clients ask for: the first job, the last one, and an id
\* that is never given out
RegistryQueryIds == {1, MaxJobs, MaxJobs + 1}

\* the content GET /status/{analysis_id} answers with
RegistryStatusContent(analysis_id) ==
    IF DictHas(processing_jobs, analysis_id)
    THEN LET status_data == DictGet(processing_jobs, analysis_id)
         IN  [k \in DOMAIN status_data \ {"result"} |-> status_data[k]]
    ELSE ProcessorGetStatus(analysis_id)

\* the content GET /results/{analysis_id} answers with
RegistryResultsContent(analysis_id) ==
    IF /\ DictHas(processing_jobs, analysis_id)
       /\ DictGet(processing_jobs, analysis_id).status = "completed"
    THEN DictGet(processing_jobs, analysis_id).result
    ELSE ProcessorGetResults(analysis_id)

\* whether GET /results/{analysis_id} finds results: in the registry of a
\* completed job, in the processor's memory or in its results file
RegistryResultsFound(analysis_id) ==
    \/ /\ DictHas(processing_jobs, analysis_id)
       /\ DictGet(processing_jobs, analysis_id).status = "completed"
    \/ analysis_id \in DOMAIN detection_results
    \/ analysis_id \in DOMAIN results_files

\* GET /status/{analysis_id}
RegistryGetStatus(analysis_id) ==
    /\ response' =
          [op |-> "get_status", analysis_id |-> analysis_id,
           status_code |-> IF RegistryStatusContent(analysis_id).status = "not_found"
                           THEN 404 ELSE 200,
           content |-> RegistryStatusContent(analysis_id)]
    /\ last' = NoLast
    /\ UNCHANGED <<driver, processing_jobs>>
    /\ ProcessorRest
    /\ RegistryRest

\* GET /results/{analysis_id}
RegistryGetResults(analysis_id) ==
    /\ response' =
          [op |-> "get_results", analysis_id |-> analysis_id,
           status_code |-> IF RegistryResultsFound(analysis_id)
                           THEN 200 ELSE 404,
           content |-> RegistryResultsContent(analysis_id)]
    /\ last' = NoLast
    /\ UNCHANGED <<driver, processing_jobs>>
    /\ ProcessorRest
    /\ RegistryRest

NextRegistry ==
    \/ Running = {} /\ RegistryUpload
    \/ \E k \in 1..Len(driver) : RegistryWorkerStart(k)
    \/ \E k \in 1..Len(driver) : RegistryProcessBegin(k)
    \/ \E k \in 1..Len(driver) : RegistryProcessEnd(k)
    \/ \E k \in 1..Len(driver) : RegistryProcessRaise(k)
    \/ \E k \in 1..Len(driver) : RegistryWorkerCompleted(k)
    \/ \E k \in 1..Len(driver) : RegistryWorkerFailed(k)
    \/ Cleanup
    \/ \E analysis_id \in RegistryQueryIds : RegistryGetStatus(analysis_id)
    \/ \E analysis_id \in RegistryQueryIds : RegistryGetResults(analysis_id)

SpecRegistry == RegistryInit /\ [][NextRegistry]_vars

-----------------------------------------------------------------------------
(* api/routes.py: DELETE /cleanup next to the worker threads.  The handler *)
(* runs on the event loop and the workers on threads of their own, so a    *)
(* worker's write may come between any two statements of the handler; the  *)
(* other handlers run on the event loop too and do not.                    *)

\* processing_jobs.update(new_jobs), from item i on
RECURSIVE DictUpdate(_, _, _)
DictUpdate(d, items, i) ==
    IF i > Len(items) THEN d
    ELSE DictUpdate(DictSet(d, items[i][1], items[i][2]), items, i + 1)

\* sorted(...) and new_jobs = dict(sorted_jobs[:10])
CleanupSort ==
    /\ ~Cleaning
    /\ Len(processing_jobs) > KeepJobs
    /\ last' = [op |-> "sorted", before |-> processing_jobs,
                after |-> CleanupOldJobs(processing_jobs)]
    /\ response' = NoLast
    /\ UNCHANGED <<driver, processing_jobs>>
    /\ ProcessorRest
    /\ RegistryRest

\* processing_jobs.clear()
CleanupClear ==
    /\ last.op = "sorted"
    /\ processing_jobs' = <<>>
    /\ last' = [last EXCEPT !.op = "cleared"]
    /\ response' = NoLast
    /\ UNCHANGED driver
    /\ ProcessorRest
    /\ RegistryRest

\* processing_jobs.update(new_jobs), and the answer
CleanupUpdate ==
    /\ last.op = "cleared"
    /\ processing_jobs' = DictUpdate(processing_jobs, last.after, 1)
    /\ last' = [last EXCEPT !.op = "cleanup"]
    /\ response' = [op |-> "cleanup", status_code |-> 200,
                    content |-> "Cleaned up old jobs"]
    /\ UNCHANGED driver
    /\ ProcessorRest
    /\ RegistryRest

NextRace ==
    \/ RegistryUpload
    \/ \E k \in 1..Len(driver) : RegistryWorkerStart(k)
    \/ \E k \in 1..Len(driver) : RegistryProcessBegin(k)
    \/ \E k \in 1..Len(driver) : RegistryProcessEnd(k)
    \/ \E k \in 1..Len(driver) : RegistryProcessRaise(k)
    \/ \E k \in 1..Len(driver) : RegistryWorkerCompleted(k)
    \/ \E k \in 1..Len(driver) : RegistryWorkerFailed(k)
    \/ CleanupSort
    \/ CleanupClear
    \/ CleanupUpdate

SpecRace == RegistryInit /\ [][NextRace]_vars

----------------------------------------------------------------------------
(* utils/lightweight_processor.py: LightweightVideoProcessor.process_video, *)
(* the processor api/routes.py takes first.  It reads the video's          *)
(* properties, makes demo detections, and walks over frame indices without *)
(* reading frames, looking at the clock at the head of every iteration.    *)
(* driver[j].elapsed is time.time() - start_time, in ticks.                *)

\* max_processing_time, in ticks of the clock
MaxProcessingTime == 2

\* the frame count of a video longer than the free tier handles
MaxLightFrames == 400

\* min(total_frames, 300)
FreeTierFrames == 300

\* max(1, total_frames // 20)
FreeTierSteps == 20

\* max(1, total_frames // 10)
DemoShare == 10

Max(a, b) == IF a > b THEN a ELSE b

\* range(start, stop, step) for a positive step, as a list
PyRange(start, stop, step) ==
    [k \in 1..(IF stop > start THEN (stop - start + step - 1) \div step ELSE 0) |->
        start + (k - 1) * step]

\* _create_demo_detections: the frame numbers it makes detections for (the
\* records themselves are random and play no part here)
DemoFrames(total_frames) ==
    LET frames_to_process == Max(1, total_frames \div DemoShare)
    IN  PyRange(0, total_frames, Max(1, total_frames \div frames_to_process))

\* CAP_PROP_FRAME_COUNT of the videos
LightTotals == {0, 1, MaxFrames, MaxLightFrames}

IdleLight ==
    [pc |-> "idle", i |-> 0, total_frames |-> 0, max_frames_to_process |-> 0,
     processing_interval |-> 1, all_detections |-> <<>>, results |-> NoResults,
     message |-> "", elapsed |-> 0,
     \* for the properties: whether the loop was left by the timeout's break
     timed_out |-> FALSE]

LightInit ==
    /\ cv2api = "none"
    /\ use_agents = FALSE
    /\ tracker = NewObjectTracker
    /\ detection_agent = NewDetectionAgent
    /\ tracking_agent = NewTrackingAgent
    /\ stats = NewStats
    /\ driver = [j \in JobIds |-> IdleLight]
    /\ processing_status = <<>>
    /\ detection_results = <<>>
    /\ results_files = <<>>
    /\ processing_jobs = <<>>
    /\ response = NoLast
    /\ faults = 0
    /\ calls = [inits |-> 0, updates |-> 0]
    /\ last = NoLast
    /\ assigned = <<>>
    /\ live_counts = {}

LightRest ==
    UNCHANGED <<cv2api, use_agents, Processor, processing_jobs, last, Ghosts>>

\* time.time() - start_time > max_processing_time
Expired(d) == d.elapsed > MaxProcessingTime

\* the clock moves while process_video runs
LightTick(j) ==
    /\ driver[j].pc \in {"open", "loop", "finish", "publish", "store", "except"}
    /\ ~Expired(driver[j])
    /\ driver' = [driver EXCEPT ![j].elapsed = @ + 1]
    /\ response' = NoLast
    /\ UNCHANGED <<processing_status, detection_results, results_files>>
    /\ LightRest

\* process_video: start_time and the first status write
LightBegin(j) ==
    /\ driver[j].pc = "call"
    /\ processing_status' = Put(processing_status, j,
            StatusRecord("processing", 0, "Starting lightweight video processing"))
    /\ driver' = [driver EXCEPT ![j].pc = "open", ![j].elapsed = 0]
    /\ response' = NoLast
    /\ UNCHANGED <<detection_results, results_files>>
    /\ LightRest

\* cv2.VideoCapture, the video's properties, the limits of the free tier
\* and the demo detections
LightOpen(j) ==
    /\ driver[j].pc = "open"
    /\ \/ driver' = [driver EXCEPT ![j].pc = "except",
                                   ![j].message = "Could not open video file"]
       \/ \E total \in LightTotals :
            driver' = [driver EXCEPT
                ![j].pc = "loop",
                ![j].total_frames = total,
                ![j].max_frames_to_process = Min(total, FreeTierFrames),
                ![j].processing_interval = Max(1, total \div FreeTierSteps),
                ![j].all_detections = DemoFrames(total),
                ![j].i = 0]
    /\ response' = NoLast
    /\ UNCHANGED <<processing_status, detection_results, results_files>>
    /\ LightRest

\* the timeout that raises instead of leaving the loop
OnTimeoutRaise(d) ==
    [d EXCEPT !.pc = "except", !.message = "Processing timeout", !.timed_out = TRUE]

\* the timeout check has fired: break
OnTimeout(d) == [d EXCEPT !.pc = "finish", !.timed_out = TRUE]

\* one iteration of the for loop: the timeout check, then the progress
LightIteration(j) ==
    LET d == driver[j]
    IN  /\ d.pc = "loop"
        /\ d.i < d.max_frames_to_process
        /\ IF Expired(d)
           THEN /\ driver' = [driver EXCEPT ![j] = OnTimeout(d)]
                /\ UNCHANGED processing_status
           ELSE /\ processing_status' = Put(processing_status, j,
                      StatusRecord("processing", Progress(d.i, d.max_frames_to_process),
                                   "Processing frame"))
                /\ driver' = [driver EXCEPT ![j].i = @ + d.processing_interval]
        /\ response' = NoLast
        /\ UNCHANGED <<detection_results, results_files>>
        /\ LightRest

\* the for loop has run through its range
LightLoopEnd(j) ==
    /\ driver[j].pc = "loop"
    /\ driver[j].i >= driver[j].max_frames_to_process
    /\ driver' = [driver EXCEPT ![j].pc = "finish"]
    /\ response' = NoLast
    /\ UNCHANGED <<processing_status, detection_results, results_files>>
    /\ LightRest

\* the results dictionary
LightResults(j, d) ==
    [analysis_id |-> j,
     total_frames |-> d.total_frames,
     processed_frames |-> d.max_frames_to_process,
     detections |-> d.all_detections,
     summary |-> [total_detections |-> Len(d.all_detections)]]

\* the statistics, the results dictionary and the results file
LightWriteResults(j) ==
    /\ driver[j].pc = "finish"
    /\ driver' = [driver EXCEPT ![j].pc = "publish",
                                ![j].results = LightResults(j, driver[j])]
    /\ results_files' = Put(results_files, j, LightResults(j, driver[j]))
    /\ response' = NoLast
    /\ UNCHANGED <<processing_status, detection_results>>
    /\ LightRest

\* processing_status[analysis_id] = completed
LightPublishCompleted(j) ==
    /\ driver[j].pc = "publish"
    /\ processing_status' = Put(processing_status, j,
            CompletedRecord(j, "Lightweight processing completed successfully"))
    /\ driver' = [driver EXCEPT ![j].pc = "store"]
    /\ response' = NoLast
    /\ UNCHANGED <<detection_results, results_files>>
    /\ LightRest

\* detection_results[analysis_id] = results, and the return
LightStoreResults(j) ==
    /\ driver[j].pc = "store"
    /\ detection_results' = Put(detection_results, j, driver[j].results)
    /\ driver' = [driver EXCEPT ![j].pc = "return"]
    /\ response' = NoLast
    /\ UNCHANGED <<processing_status, results_files>>
    /\ LightRest

\* the except clause: status error, and the exception goes on
LightExcept(j) ==
    /\ driver[j].pc = "except"
    /\ processing_status' = Put(processing_status, j,
            StatusRecord("error", 0, driver[j].message))
    /\ driver' = [driver EXCEPT ![j].pc = "raised"]
    /\ response' = NoLast
    /\ UNCHANGED <<detection_results, results_files>>
    /\ LightRest

LightStep(j) ==
    \/ Upload(j)
    \/ WorkerStart(j)
    \/ LightBegin(j)
    \/ LightOpen(j)
    \/ LightTick(j)
    \/ LightIteration(j)
    \/ LightLoopEnd(j)
    \/ LightWriteResults(j)
    \/ LightPublishCompleted(j)
    \/ LightStoreResults(j)
    \/ WorkerCompleted(j)
    \/ LightExcept(j)
    \/ WorkerFailed(j)

NextLight == LightStep("a")

SpecLight == LightInit /\ [][NextLight]_vars

----------------------------------------------------------------------------
(* Properties of the tracker store, checked under SpecStore *)

Objects == Range(tracker.tracked_objects)

LastWasInit == last.op \in {"init", "reinitialize"}

\* C5: an initialize with D detections leaves at most D objects; the ids in
\* the store are pairwise distinct; every id assigned is greater than every
\* id assigned before it in the store's lifetime, also across clears.
C5_IdsDistinctIncreasing ==
    /\ LastWasInit => Len(tracker.tracked_objects) <= Len(last.detections)
    /\ \A i, j \in 1..Len(tracker.tracked_objects) :
          i # j => tracker.tracked_objects[i].id # tracker.tracked_objects[j].id
    /\ \A i, j \in 1..Len(assigned) : i < j => assigned[i] < assigned[j]

\* a second initialization that refilled a store which had objects, one
\* detection of the batch dropped
C5_Witness ==
    /\ LastWasInit
    /\ last.before.tracked_objects # <<>>
    /\ Len(last.detections) = 2
    /\ Len(tracker.tracked_objects) = 1
    /\ Len(assigned) >= 3

\* C6: reinitialize discards every object the store held: no id of before
\* is in the store after it, every history starts again with the one box of
\* its detection, and the store is what init makes of the same arguments.
C6_ReinitializeReplaces ==
    last.op = "reinitialize" =>
        /\ Ids(last.before) \cap Ids(tracker) = {}
        /\ \A o \in Objects :
              /\ o.history = <<o.bbox>>
              /\ \E d \in Range(last.detections) : o.bbox = ToXYWH(d.bbox)
        /\ tracker = TrackerInit(last.before, last.detections, last.outs, cv2api)

\* a reinitialize of a store whose objects had been tracked for some frames
C6_Witness ==
    /\ last.op = "reinitialize"
    /\ \E o \in Range(last.before.tracked_objects) : Len(o.history) > 2
    /\ Len(tracker.tracked_objects) = 2

\* C7: the history of every tracked object has between 1 and 30 entries.
C7_HistoryBounded ==
    \A o \in Objects : Len(o.history) >= 1 /\ Len(o.history) <= HistoryCap

\* an object updated successfully more than 30 times: its first box is gone
C7_Witness ==
    /\ calls.updates > HistoryCap
    /\ \E o \in Objects :
          /\ Len(o.history) = HistoryCap
          /\ o.bbox[1] > ToXYWH(D1.bbox)[1] + HistoryCap
          /\ o.history[1] # ToXYWH(D1.bbox)

----------------------------------------------------------------------------
(* Properties of one job's frame loop, checked under Spec *)

LastFrame == last.op = "frame"

LastOps == Range(last.ops)

\* the frames a job has handled so far on which n % 15 = 0
ScheduledFrames(d) == {n \in 0..(d.frame_count - 1) : n % 15 = 0}

\* the number of records of a list that carry frame number n
RecordsOn(records, n) ==
    Cardinality({i \in 1..Len(records) : records[i].frame_number = n})

\* C1: with detection_interval = 15 the detector has run on exactly the
\* frames 0, 15, 30, ... of the frames handled so far, on the direct and on
\* the agent path; on any other frame the only call made on the tracker
\* store is update (the direct path always makes it, the agent path makes it
\* once the tracking agent is initialized).
C1_DetectionSchedule ==
    \A j \in JobIds :
        LET d == driver[j]
        IN  d.detection_interval = 15 =>
              /\ \A n \in DOMAIN d.detect_found : n % 15 = 0
              /\ ScheduledFrames(d) \subseteq DOMAIN d.detect_found
              /\ (LastFrame /\ last.job = j /\ last.index % 15 # 0) =>
                    /\ LastOps \subseteq {"update"}
                    /\ (~use_agents \/ tracking_agent.initialized) =>
                            last.ops = <<"update">>

\* the agent path, 32 frames handled: detection on 0, 15 and 30, and frame
\* 31 handled by an update of a store that holds an object
C1_Witness ==
    /\ use_agents
    /\ driver["a"].frame_count = 32
    /\ DOMAIN driver["a"].detect_found = {0, 15, 30}
    /\ LastFrame /\ last.index = 31 /\ last.ops = <<"update">>
    /\ last.results # <<>>

\* C3: after a detection frame on which the detector returned at least one
\* detection, every object of the store was built from this frame's
\* detections and carries an id assigned during this frame.
C3_ReinitializedOnDetection ==
    (LastFrame /\ "detect" \in LastOps /\ last.detections # <<>>) =>
        \A o \in Objects :
            /\ o.id >= last.before.next_id
            /\ \E i \in 1..Len(last.detections) :
                  /\ o.class_id = last.detections[i].class_id
                  /\ o.confidence = last.detections[i].confidence
                  /\ o.history[1] = ToXYWH(last.detections[i].bbox)

\* the most recent frame of job j on which the detector ran (-1: none yet)
LastDetectionFrame(j) ==
    LET frames == DOMAIN driver[j].detect_found
    IN  IF frames = {} THEN -1
        ELSE CHOOSE n \in frames : \A m \in frames : m <= n

\* C4: when the detector returned zero detections on the most recent
\* detection frame, the store is empty after that frame and after every
\* frame that follows it, and the updates on those frames return no object.
C4_EmptyAfterZeroDetections ==
    \A j \in JobIds :
        (/\ LastFrame /\ last.job = j
         /\ LastDetectionFrame(j) >= 0
         /\ driver[j].detect_found[LastDetectionFrame(j)] = <<>>) =>
            /\ tracker.tracked_objects = <<>>
            /\ last.results = <<>>

\* the 45-frame scenario: every frame handled, 2 detections on each of the
\* frames 0, 15 and 30, and no tracker that failed
Scenario45(j) ==
    /\ driver[j].pc = "done"
    /\ j \in DOMAIN processing_jobs
    /\ processing_jobs[j].status = "completed"
    /\ driver[j].results.processed_frames = 45
    /\ driver[j].detection_interval = 15
    /\ DOMAIN driver[j].detect_found = {0, 15, 30}
    /\ \A n \in {0, 15, 30} : Len(driver[j].detect_found[n]) = 2
    /\ ~driver[j].tracker_missed

\* C8: in the 45-frame scenario the result's detections list holds the 6
\* records of the detector (2 per detection frame) and 2 tracked records for
\* each of the 42 other frames, and summary.total_detections is 6 + 84 = 90,
\* on the direct and on the agent path.
C8_Scenario45Counts ==
    \A j \in JobIds :
        Scenario45(j) =>
            LET r == processing_jobs[j].result
                found == driver[j].detect_found
            IN  /\ Cardinality({i \in 1..Len(r.detections) :
                        \E n \in {0, 15, 30} : \E k \in 1..2 :
                            r.detections[i] = found[n][k]}) = 6
                /\ \A n \in 0..44 :
                        n % 15 # 0 => RecordsOn(r.detections, n) = 2
                /\ r.summary.total_detections = 90

\* the scenario on the direct path, where the counts are the stated ones
C8_DirectWitness ==
    /\ ~use_agents
    /\ Scenario45("a")
    /\ processing_jobs["a"].result.summary.total_detections = 90

----------------------------------------------------------------------------
(* Properties of the jobs of one processor, checked under SpecJobs *)

\* the steps a job's status may take, as GET /status reports it and as the
\* processor records it
RegistryArrows ==
    {<<"not_found", "queued">>, <<"queued", "processing">>,
     <<"processing", "completed">>, <<"processing", "error">>}

ProcessorArrows ==
    {<<"not_found", "processing">>,
     <<"processing", "completed">>, <<"processing", "error">>}

Terminal == {"completed", "error"}

\* C2: the status of a job only moves along queued -> processing ->
\* (completed | error), and once it is completed or error neither the
\* status nor the result changes, whatever step is taken next: a step of
\* either worker, a status or result query, or another upload.  This is so
\* for the registry GET /status and GET /results read and for the
\* processor's own.
C2_StatusTransitions ==
    [][\A j \in JobIds :
         /\ StatusContent(j).status' # StatusContent(j).status =>
                <<StatusContent(j).status, StatusContent(j).status'>> \in RegistryArrows
         /\ StatusContent(j).status \in Terminal =>
                /\ StatusContent(j).status' = StatusContent(j).status
                /\ ResultsContent(j)' = ResultsContent(j)
         /\ ProcessorGetStatus(j).status' # ProcessorGetStatus(j).status =>
                <<ProcessorGetStatus(j).status, ProcessorGetStatus(j).status'>>
                    \in ProcessorArrows
         /\ ProcessorGetStatus(j).status \in Terminal =>
                /\ ProcessorGetStatus(j).status' = ProcessorGetStatus(j).status
                /\ ProcessorGetResults(j)' = ProcessorGetResults(j)
      ]_vars

\* one job completed and the other failed, and the results of the completed
\* one asked for afterwards
C2_Witness ==
    /\ StatusContent("a").status = "completed"
    /\ StatusContent("b").status = "error"
    /\ ProcessorGetStatus("b").status = "error"
    /\ response.op = "get_results"
    /\ response.analysis_id = "a"
    /\ response.status_code = 200

\* C9: when the detector returned zero detections on frame 0 of a job, the
\* store is empty after each of the job's frames 0 to 14, and the job's
\* records hold none for the frames 1 to 14.
C9_EmptyAfterZeroAtFrame0 ==
    \A j \in JobIds :
        (/\ LastFrame /\ last.job = j /\ last.index <= 14
         /\ 0 \in DOMAIN driver[j].detect_found
         /\ driver[j].detect_found[0] = <<>>) =>
            /\ tracker.tracked_objects = <<>>
            /\ \A n \in 1..14 : RecordsOn(driver[j].all_detections, n) = 0

\* C10: the jobs of one processor do not share the tracker store or the
\* schedule: a job's frame 0 finds an empty store, a later frame finds the
\* objects the job's previous frame left, and whether the detector runs on
\* a frame depends on the job's own frame index only.
C10_JobsIsolated ==
    LastFrame =>
        /\ last.index = 0 => last.before.tracked_objects = <<>>
        /\ last.index > 0 => Ids(last.before) = last.ids_expected
        /\ ("detect" \in LastOps) <=> (last.index % 15 = 0)

\* C11: whatever the interleaving of the driver's finishing steps with the
\* clients' queries, GET /results answers with a result only when the
\* status of the analysis is completed; while the status is queued or
\* processing it answers not found.
C11_ResultOnlyWhenCompleted ==
    response.op = "get_results" =>
        LET status == StatusContent(response.analysis_id).status
        IN  /\ response.status_code = 200 => status = "completed"
            /\ status \in {"queued", "processing"} => response.status_code = 404

----------------------------------------------------------------------------
(* Properties of the registry's eviction, checked under SpecRegistry *)

\* C12: when the registry holds more than 10 jobs, DELETE /cleanup leaves
\* exactly 10, the 10 most recently completed: every job it keeps completed
\* no earlier than every job it drops.
C12_KeepsMostRecentlyCompleted ==
    (last.op = "cleanup" /\ Len(last.before) > 10) =>
        LET kept == DictKeys(last.after)
            dropped == DictKeys(last.before) \ kept
            completed(k) == DictGet(last.before, k).status = "completed"
        IN  /\ Len(last.after) = 10
            /\ \A k \in kept : \A d \in dropped :
                  (completed(k) /\ completed(d)) =>
                        driver[k].finished >= driver[d].finished


\* an id neither upload_video nor process_video has registered
Unregistered(analysis_id) ==
    /\ analysis_id \notin DOMAIN processing_jobs
    /\ analysis_id \notin DOMAIN processing_status

\* C13: a status query for an id that was never registered answers with
\* the view "not_found", progress 0, and leaves both registries as they
\* were, so the id is still unregistered for the next query.
C13_NotFoundForUnregistered ==
    [][\A analysis_id \in QueryIds :
          (/\ Unregistered(analysis_id)
           /\ response'.op = "get_status"
           /\ response'.analysis_id = analysis_id) =>
                /\ response'.content.status = "not_found"
                /\ response'.content.progress = 0
                /\ DOMAIN response'.content = {"status", "progress", "message"}
                /\ Unregistered(analysis_id)'
                /\ processing_jobs' = processing_jobs
                /\ processing_status' = processing_status]_vars

\* job a is being processed and the status of b, not uploaded, was asked for
C13_Witness ==
    /\ response.op = "get_status"
    /\ response.analysis_id = "b"
    /\ response.content.status = "not_found"
    /\ Unregistered("b")
    /\ "a" \in DOMAIN processing_status
    /\ processing_status["a"].status = "processing"


\* C14: while the status of a job is processing, every progress written for
\* it lies within 0..100 and is not smaller than the one it replaces.
C14_ProgressMonotone ==
    [][\A j \in JobIds :
          (/\ j \in DOMAIN processing_status'
           /\ processing_status'[j].status = "processing") =>
                /\ processing_status'[j].progress \in 0..100
                /\ (/\ j \in DOMAIN processing_status
                    /\ processing_status[j].status = "processing") =>
                        processing_status'[j].progress >= processing_status[j].progress]_vars

\* frame 10 of a video that reports fewer frames than it has: the progress
\* written is 100, cut from a larger quotient
C14_Witness ==
    /\ LastFrame /\ last.index = 10
    /\ driver["a"].total_frames > 0
    /\ last.index > driver["a"].total_frames
    /\ processing_status["a"] = StatusRecord("processing", 100, "Processing frame")

\* C15: a video that reports total_frames = 0 and still yields frames does
\* not make its job fail: after each of its frames the job is not in an
\* exception handler and its status is processing (completed at the end),
\* with no progress computed, and the worker records it as completed.
C15_ZeroTotalCompletes ==
    \A j \in JobIds :
        (LastFrame /\ last.job = j /\ driver[j].total_frames = 0) =>
            /\ driver[j].pc \notin {"except", "raised"}
            /\ processing_status[j].status \in {"processing", "completed"}
            /\ processing_status[j].status = "processing" =>
                    processing_status[j].progress = 0
            /\ driver[j].pc = "done" => processing_jobs[j].status = "completed"

\* whether a tracker.init or a tracker.update has raised on the last frame
LastRaised ==
    \/ "reinitialize" \in LastOps /\ last.init_raised
    \/ "update" \in LastOps /\ last.update_raised

\* C16: a frame on which a call of the detect/track step has raised adds no
\* detection and no track to the job's records, the job goes on with the next
\* frame, and it does not end in status error (a video with total_frames = 0
\* is left out: its job fails for another reason).
C16_FrameExceptionContained ==
    \A j \in JobIds :
        (LastFrame /\ last.job = j /\ LastRaised /\ driver[j].total_frames > 0) =>
            /\ last.detections = <<>>
            /\ last.results = <<>>
            /\ driver[j].frame_count = last.index + 1
            /\ driver[j].pc \notin {"except", "raised"}
            /\ driver[j].pc = "done" => processing_jobs[j].status = "completed"


\* C17: a job whose video could not be opened, or out of whose frame loop an
\* exception has come, gets status error with a non-empty message in the
\* processor's registry and then in the service's; no result is stored for
\* it, and a results query for it answers not found.
C17_ErrorHasNoResult ==
    \A j \in JobIds :
        /\ (driver[j].pc \in {"raised", "done"} /\ driver[j].message # "") =>
                /\ j \in DOMAIN processing_status
                /\ processing_status[j].status = "error"
                /\ processing_status[j].message # ""
        /\ (driver[j].pc = "done" /\ driver[j].message # "") =>
                /\ processing_jobs[j].status = "error"
                /\ processing_jobs[j].message # ""
        /\ (j \in DOMAIN processing_status /\ processing_status[j].status = "error") =>
                /\ j \notin DOMAIN detection_results
                /\ ResultsContent(j) = NoResults
                /\ (response.op = "get_results" /\ response.analysis_id = j) =>
                        response.status_code = 404

\* job a has failed on its first frame, job b has completed, and the
\* results of a were asked for
C17_Witness ==
    /\ driver["a"].pc = "done"
    /\ driver["a"].message = "division by zero"
    /\ processing_jobs["a"].status = "error"
    /\ driver["b"].pc = "done"
    /\ processing_jobs["b"].status = "completed"
    /\ response.op = "get_results"
    /\ response.analysis_id = "a"
    /\ response.status_code = 404

\* C18: a job whose video writer has not opened ends in status error, with
\* a message, in both registries, and without a result in memory or on disk.
C18_WriterFailureIsFatal ==
    \A j \in JobIds :
        (driver[j].pc = "done" /\ ~driver[j].writer_opened) =>
            /\ processing_status[j].status = "error"
            /\ processing_status[j].message # ""
            /\ processing_jobs[j].status = "error"
            /\ j \notin DOMAIN detection_results
            /\ j \notin DOMAIN results_files

\* C19: after an update, the store holds the same ids in the same order; an
\* object whose tracker has reported failure or raised is unchanged and has
\* no record in the result list; every other object has exactly one (so an
\* object that missed one update is reported by the next one on which its
\* tracker succeeds).
C19_FailedUpdateKeepsObject ==
    last.op = "update" =>
        LET before == last.before.tracked_objects
            failed(i) == /\ before[i].tracker.kind # "Dummy"
                         /\ last.outs[i] \in {"fail", "raise"}
        IN  /\ NewIds(tracker) = NewIds(last.before)
            /\ \A i \in 1..Len(before) :
                  /\ failed(i) => tracker.tracked_objects[i] = before[i]
                  /\ Cardinality({k \in 1..Len(last.results) :
                                    last.results[k].id = before[i].id})
                        = IF failed(i) THEN 0 ELSE 1
            /\ \A k \in 1..Len(last.results) :
                  \E i \in 1..Len(before) : last.results[k].id = before[i].id

\* two objects from one init, one of them missed by an earlier update, both
\* reported by the last one
C19_Witness ==
    /\ last.op = "update"
    /\ calls.inits = 1
    /\ faults = 1
    /\ Len(tracker.tracked_objects) = 2
    /\ Len(last.results) = 2
    /\ Len(tracker.tracked_objects[1].history) # Len(tracker.tracked_objects[2].history)


\* C20: the timeout takes effect only in the check at the head of an
\* iteration: the tick that passes the limit changes neither the position
\* of the driver nor a status; once the check has fired no further index is
\* handled and no further progress written; the job does not go through an
\* exception handler and ends with status completed and a stored result.
C20_TimeoutCompletesWithResult ==
    /\ [](\A j \in JobIds :
            driver[j].timed_out =>
                /\ driver[j].pc \in {"finish", "publish", "store", "return", "done"}
                /\ driver[j].message = ""
                /\ processing_status[j].status \in {"processing", "completed"}
                /\ driver[j].pc = "done" =>
                        /\ processing_status[j].status = "completed"
                        /\ processing_jobs[j].status = "completed"
                        /\ j \in DOMAIN detection_results
                        /\ ResultsContent(j) # NoResults)
    /\ [][\A j \in JobIds :
            /\ (~Expired(driver[j]) /\ Expired(driver[j])') =>
                    /\ driver'[j].pc = driver[j].pc
                    /\ driver'[j].i = driver[j].i
                    /\ ~driver'[j].timed_out
                    /\ processing_status' = processing_status
            /\ (~driver[j].timed_out /\ driver'[j].timed_out) =>
                    /\ driver[j].pc = "loop"
                    /\ Expired(driver[j])
            /\ driver[j].timed_out =>
                    /\ driver'[j].i = driver[j].i
                    /\ processing_status'[j].status = "processing" =>
                            processing_status'[j] = processing_status[j]]_vars

\* the limit has passed in the middle of the walk over a long video: the
\* loop was left early and the job has completed with its result stored
C20_Witness ==
    /\ driver["a"].timed_out
    /\ driver["a"].pc = "done"
    /\ driver["a"].i > 0
    /\ driver["a"].i < driver["a"].max_frames_to_process
    /\ driver["a"].total_frames > FreeTierFrames
    /\ processing_jobs["a"].status = "completed"
    /\ "a" \in DOMAIN detection_results


\* the requested tracker algorithm has no implementation in this build
Unavailable == cv2api = "none" \/ tracker.tracker_type \notin {"KCF", "CSRT", "MOSSE"}

\* the detection an object of the store was made from
DetectionOf(o) == CHOOSE d \in {D1, D2} : d.class_id = o.class_id

\* C21: when the tracker algorithm has no implementation, an initialize
\* makes an object of every detection, every update reports every object,
\* and each object keeps the box it was initialized with; for D1, whose
\* corners are whole pixels, the reported corners are the detection's.
C21_PassThroughTracker ==
    Unavailable =>
        /\ LastWasInit =>
              /\ Len(tracker.tracked_objects) = Len(last.detections)
              /\ \A i \in 1..Len(last.detections) :
                    tracker.tracked_objects[i].bbox = ToXYWH(last.detections[i].bbox)
        /\ last.op = "update" =>
              /\ Len(last.results) = Len(tracker.tracked_objects)
              /\ \A i \in 1..Len(last.results) :
                    /\ last.results[i].id = tracker.tracked_objects[i].id
                    /\ last.results[i].bbox =
                            ToCorners(ToXYWH(DetectionOf(last.results[i]).bbox))
                    /\ last.results[i].class_id = D1.class_id =>
                            [k \in 1..4 |-> 2 * last.results[i].bbox[k]] = D1.bbox
        /\ \A o \in Objects : o.bbox = ToXYWH(DetectionOf(o).bbox)

\* OpenCV has its trackers, the type asked for is none of them: two objects
\* reported by the 31st update since they were initialized
C21_Witness ==
    /\ cv2api = "new"
    /\ tracker.tracker_type = "GOTURN"
    /\ last.op = "update"
    /\ calls.updates > HistoryCap
    /\ Len(last.results) = 2

\* the detections of the last init whose tracker has started, in order
Started ==
    LET n == Len(last.detections)
        ok(i) == \/ CreateTracker(last.before.tracker_type, cv2api).kind = "Dummy"
                 \/ last.outs[i] = "ok"
        rank(i) == Cardinality({k \in 1..i : ok(k)})
        count == Cardinality({k \in 1..n : ok(k)})
    IN  [r \in 1..count |-> last.detections[CHOOSE i \in 1..n : ok(i) /\ rank(i) = r]]

\* C29: after an initialize the store holds exactly the detections whose
\* tracker has started, in their order, with consecutive ids from the
\* counter's value before the call; a detection whose tracker returned
\* failure or raised has no object and has used no id.
C29_FailedInitDropsDetection ==
    LastWasInit =>
        /\ Len(tracker.tracked_objects) = Len(Started)
        /\ \A r \in 1..Len(Started) :
              /\ tracker.tracked_objects[r].id = last.before.next_id + r - 1
              /\ tracker.tracked_objects[r].class_id = Started[r].class_id
              /\ tracker.tracked_objects[r].bbox = ToXYWH(Started[r].bbox)
        /\ tracker.next_id = last.before.next_id + Len(Started)

\* a batch of two on a store that has given out ids before: the tracker of
\* the first raises, the second gets the next id
C29_Witness ==
    /\ LastWasInit
    /\ last.before.next_id > 0
    /\ last.detections = <<D1, D2>>
    /\ last.outs = <<"raise", "ok">>
    /\ Len(tracker.tracked_objects) = 1
    /\ tracker.tracked_objects[1].class_id = D2.class_id
    /\ tracker.tracked_objects[1].id = last.before.next_id

\* the number of successful updates of an object since it was made: an
\* OpenCV tracker has moved one pixel to the right with each of them, a
\* dummy tracker succeeds in every update
Successes(o) ==
    IF o.tracker.kind = "Dummy" THEN calls.updates
    ELSE o.bbox[1] - ToXYWH(DetectionOf(o).bbox)[1]

\* the box an object had after its k-th successful update (0: as made)
BoxAfter(o, k) ==
    LET b == ToXYWH(DetectionOf(o).bbox)
    IN  IF o.tracker.kind = "Dummy" THEN b ELSE <<b[1] + k, b[2], b[3], b[4]>>

\* C30: after n successful updates the history of an object is the last
\* min(30, n + 1) of its boxes, oldest first.
C30_HistoryIsLatestBoxes ==
    \A o \in Objects :
        LET n == Successes(o)
            len == Min(HistoryCap, n + 1)
        IN  /\ Len(o.history) = len
            /\ \A k \in 1..len : o.history[k] = BoxAfter(o, n + 1 - len + k - 1)

\* an object followed for 32 frames: its history starts with the box of
\* its third update
C30_Witness ==
    \E o \in Objects :
        /\ o.tracker.kind = "KCF"
        /\ Successes(o) = HistoryCap + 2
        /\ o.history[1] = BoxAfter(o, 3)
        /\ o.history[HistoryCap] = o.bbox

-----------------------------------------------------------------------------
(* Properties of the status and result routes next to the eviction,        *)
(* checked under SpecRegistry                                               *)

\* the analysis ids upload_video has returned
Returned == 1..Len(driver)

\* C22: a job is in the registry with status queued from its upload until
\* its worker writes, and a status query for an analysis id that was
\* returned to its uploader never answers not found
C22_QueuedBeforeReturn ==
    /\ \A k \in Returned :
          driver[k].pc = "queued" /\ DictHas(processing_jobs, k)
              => DictGet(processing_jobs, k).status = "queued"
    /\ response.op = "get_status" /\ response.analysis_id \in Returned
          => /\ response.status_code = 200
             /\ response.content.status # "not_found"

\* C25: the view a status query answers with has a status, a progress and
\* a message and nothing else, for a completed job too; the query leaves
\* the registries and the results as they were, so a result query after it
\* still finds the result of a completed job
C25_StatusViewWithoutResult ==
    /\ [](response.op = "get_status" /\ response.status_code = 200
            => DOMAIN response.content = {"status", "progress", "message"})
    /\ [][response'.op = "get_status" =>
            /\ processing_jobs' = processing_jobs
            /\ processing_status' = processing_status
            /\ detection_results' = detection_results
            /\ results_files' = results_files
            /\ \A k \in Returned :
                  driver[k].completed => /\ RegistryResultsFound(k)'
                                         /\ RegistryResultsContent(k)' = RegistryResult(k)]_vars

\* the completed jobs whose registry entry a cleanup has dropped
Evicted == {k \in Returned : driver[k].completed /\ ~DictHas(processing_jobs, k)}

\* C26: a cleanup changes the registry of the routes only, the results in
\* the processor's memory and the results files stay as they were, and a
\* result query for a completed job whose entry was dropped still answers
\* with the job's result
C26_EvictionKeepsResults ==
    /\ [][response'.op = "cleanup" =>
            /\ results_files' = results_files
            /\ detection_results' = detection_results
            /\ processing_status' = processing_status]_vars
    /\ [](\A k \in Evicted :
            /\ k \in DOMAIN results_files
            /\ results_files[k] = RegistryResult(k)
            /\ response.op = "get_results" /\ response.analysis_id = k
                  => /\ response.status_code = 200
                     /\ response.content = RegistryResult(k))

\* the results of the last job were asked for once the cleanup had dropped
\* its entry
C26_Witness ==
    /\ response.op = "get_results"
    /\ response.analysis_id = MaxJobs
    /\ response.status_code = 200
    /\ MaxJobs \in Evicted

\* C36: the entries a cleanup drops are entries of jobs that are completed
\* or in error; a job that is queued or processing keeps its entry
C36_EvictsOnlyFinishedJobs ==
    last.op = "cleanup" =>
        /\ \A k \in DictKeys(last.before) \ DictKeys(last.after) :
              DictGet(last.before, k).status \in Terminal
        /\ \A k \in Returned :
              driver[k].pc # "done" /\ DictHas(last.before, k) => DictHas(processing_jobs, k)

-----------------------------------------------------------------------------
(* Properties of the status route while a job runs, checked under Spec     *)

\* C23: while a job runs, GET /status answers with status processing and
\* the progress process_video has published last
C23_StatusShowsPublishedProgress ==
    \A j \in JobIds :
        /\ j \in DOMAIN processing_status
        /\ processing_status[j].status = "processing"
        => /\ StatusContent(j).status = "processing"
           /\ StatusContent(j).progress = processing_status[j].progress

-----------------------------------------------------------------------------
(* Properties of the status and result routes, checked under SpecJobs      *)

\* the status, progress and message of a registry entry
StatusView(entry) == [k \in {"status", "progress", "message"} |-> entry[k]]

\* C24: the view a status query answers with is the status, progress and
\* message of the one entry the registry holds for the job, whatever the
\* job's worker is doing: never status completed with a progress other than
\* 100, never status error with a progress other than 0
C24_StatusViewOfOneWrite ==
    response.op = "get_status" /\ response.status_code = 200 =>
        LET analysis_id == response.analysis_id
            entry == IF analysis_id \in DOMAIN processing_jobs
                     THEN processing_jobs[analysis_id]
                     ELSE processing_status[analysis_id]
        IN  /\ StatusView(response.content) = StatusView(entry)
            /\ <<response.content.status, response.content.progress>> \in
                  {<<"queued", 0>>, <<"processing", 0>>, <<"completed", 100>>, <<"error", 0>>}

\* a query for job a while its worker is between the processor's status
\* completed and the route's own: the two registries hold different writes
C24_Witness ==
    /\ response.op = "get_status"
    /\ response.analysis_id = "a"
    /\ response.content.status = "processing"
    /\ response.content.progress = 0
    /\ "a" \in DOMAIN processing_status
    /\ processing_status["a"].status = "completed"
    /\ processing_status["a"].progress = 100

\* an id no upload has registered and no results are kept for
Unknown(analysis_id) ==
    /\ Unregistered(analysis_id)
    /\ analysis_id \notin DOMAIN detection_results
    /\ analysis_id \notin DOMAIN results_files

\* C27: a result request for an unknown id is answered with not found and
\* no results; it writes no status for the id, which stays unknown, and it
\* leaves the registries and the results as they were
C27_NotFoundForUnknownResults ==
    [][\A analysis_id \in QueryIds :
          (/\ Unknown(analysis_id)
           /\ response'.op = "get_results"
           /\ response'.analysis_id = analysis_id) =>
                /\ response'.status_code = 404
                /\ response'.content = NoResults
                /\ Unknown(analysis_id)'
                /\ processing_jobs' = processing_jobs
                /\ processing_status' = processing_status
                /\ detection_results' = detection_results
                /\ results_files' = results_files]_vars

\* the results of b, not uploaded, were asked for when those of a were there
C27_Witness ==
    /\ response.op = "get_results"
    /\ response.analysis_id = "b"
    /\ response.status_code = 404
    /\ Unknown("b")
    /\ "a" \in DOMAIN results_files
    /\ "a" \in DOMAIN processing_jobs
    /\ processing_jobs["a"].status = "completed"

-----------------------------------------------------------------------------
(* Properties of the detection schedule for the intervals of the callers,  *)
(* checked under SpecInterval                                               *)

\* C28: whatever detection_interval process_video was called with, the
\* detector has run on exactly the frames handled so far whose index is a
\* multiple of it, frame 0 among them, on the direct and on the agent path
C28_IntervalIsUsed ==
    \A j \in JobIds :
        LET d == driver[j]
        IN  /\ \A n \in DOMAIN d.detect_found : n % d.detection_interval = 0
            /\ \A n \in 0..(d.frame_count - 1) :
                  n % d.detection_interval = 0 => n \in DOMAIN d.detect_found

-----------------------------------------------------------------------------
(* Properties of what the store keeps of a detection, checked under        *)
(* SpecStore                                                               *)

\* the id, class_id, class_name and confidence of an object or a record
Identity(o) == [k \in {"id", "class_id", "class_name", "confidence"} |-> o[k]]

\* C31: an initialize gives each object the class_id, class_name and
\* confidence of its detection and an id; an update changes none of the
\* four for any object of the store, whatever its tracker answers, and
\* every record it returns carries the four fields of its object
C31_RecordsCarryIdentity ==
    /\ [](LastWasInit =>
            \A r \in 1..Len(tracker.tracked_objects) :
                Identity(tracker.tracked_objects[r]) =
                    [Identity(Started[r]) EXCEPT !.id = last.before.next_id + r - 1])
    /\ [][last'.op = "update" =>
            /\ Len(tracker'.tracked_objects) = Len(tracker.tracked_objects)
            /\ \A i \in 1..Len(tracker.tracked_objects) :
                  Identity(tracker'.tracked_objects[i]) = Identity(tracker.tracked_objects[i])
            /\ \A k \in 1..Len(last'.results) :
                  \E o \in Objects : Identity(last'.results[k]) = Identity(o)]_vars

\* OpenCV trackers that have followed two objects for some frames, and an
\* update on which the first object was lost: the only record is the car's
C31_Witness ==
    /\ last.op = "update"
    /\ calls.updates >= 3
    /\ Len(tracker.tracked_objects) = 2
    /\ tracker.tracked_objects[1].tracker.kind = "KCF"
    /\ last.outs = <<"fail", "ok">>
    /\ Len(last.results) = 1
    /\ Identity(last.results[1]) =
          [id |-> tracker.tracked_objects[2].id, class_id |-> 2,
           class_name |-> "car", confidence |-> 60]

-----------------------------------------------------------------------------
(* Properties of the records of a result, checked under Spec               *)

\* whether every record of the list carries a frame number below `frames`
\* and no record carries a smaller one than the record before it
TaggedInOrder(records, frames) ==
    /\ \A i \in 1..Len(records) : records[i].frame_number \in 0..(frames - 1)
    /\ \A i \in 1..(Len(records) - 1) :
          records[i].frame_number <= records[i + 1].frame_number

\* C32: the records a job has gathered unless it has raised, and those of the
\* result it stores,
\* writes to the results file and hands to the route, carry the index of
\* their frame: what the detector returned on frame n is in the list with
\* frame_number n, every frame_number is at least 0 and below the number of
\* frames handled, and the list is in non-decreasing frame_number order
C32_RecordsTaggedInOrder ==
    \A j \in JobIds :
        /\ driver[j].message = "" =>
              TaggedInOrder(driver[j].all_detections, driver[j].frame_count)
        /\ \A n \in DOMAIN driver[j].detect_found :
              \A i \in 1..Len(driver[j].detect_found[n]) :
                 \E k \in 1..Len(driver[j].all_detections) :
                    /\ driver[j].all_detections[k].frame_number = n
                    /\ driver[j].all_detections[k].class_id =
                            driver[j].detect_found[n][i].class_id
        /\ j \in DOMAIN detection_results =>
              TaggedInOrder(detection_results[j].detections,
                            detection_results[j].processed_frames)
        /\ j \in DOMAIN results_files =>
              TaggedInOrder(results_files[j].detections,
                            results_files[j].processed_frames)
        /\ (j \in DOMAIN processing_jobs /\ processing_jobs[j].status = "completed") =>
              /\ processing_jobs[j].result.detections = driver[j].all_detections
              /\ TaggedInOrder(processing_jobs[j].result.detections,
                               processing_jobs[j].result.processed_frames)

\* a completed job of 45 frames on the agent path whose result has records
\* of the detector and of the trackers, from frame 0 to frame 44
C32_Witness ==
    /\ use_agents
    /\ "a" \in DOMAIN processing_jobs
    /\ processing_jobs["a"].status = "completed"
    /\ processing_jobs["a"].result.processed_frames = 45
    /\ RecordsOn(processing_jobs["a"].result.detections, 0) >= 1
    /\ RecordsOn(processing_jobs["a"].result.detections, 30) >= 2
    /\ RecordsOn(processing_jobs["a"].result.detections, 44) >= 1

-----------------------------------------------------------------------------
(* Properties of the order in which a job's end is published, checked      *)
(* under SpecJobs                                                          *)

\* C35: once the processor's status of a job, or the entry of the routes'
\* registry, says completed, the processor's get_results and GET /results
\* find the job's result, wherever the job's worker is between writing the
\* results file and its return
C35_CompletedHasResult ==
    \A j \in JobIds :
        /\ (j \in DOMAIN processing_status /\ processing_status[j].status = "completed") =>
              /\ ProcessorGetResults(j) # NoResults
              /\ ProcessorGetResults(j).analysis_id = j
              /\ ProcessorGetResults(j).processed_frames = driver[j].frame_count
              /\ ResultsContent(j) = ProcessorGetResults(j)
        /\ (j \in DOMAIN processing_jobs /\ processing_jobs[j].status = "completed") =>
              /\ ResultsContent(j) = processing_jobs[j].result
              /\ ResultsContent(j).analysis_id = j
        /\ (/\ response.op = "get_results" /\ response.analysis_id = j
            /\ StatusContent(j).status = "completed") =>
              /\ response.status_code = 200
              /\ response.content.analysis_id = j

\* the results of job a were asked for after the processor had written
\* status completed and before it had stored them in memory: they came
\* from the results file
C35_Witness ==
    /\ response.op = "get_results"
    /\ response.analysis_id = "a"
    /\ response.status_code = 200
    /\ driver["a"].pc = "store"
    /\ processing_status["a"].status = "completed"
    /\ "a" \notin DOMAIN detection_results

-----------------------------------------------------------------------------
(* Properties of the agents' messages, checked under Spec                  *)

UninitializedTurn ==
    /\ use_agents
    /\ LastFrame
    /\ "update" \notin LastOps
    /\ "reinitialize" \notin LastOps

\* C39: when the tracking agent has processed a frame without being
\* initialized, and the detection agent's last detections are at most 5
\* frames older than the tracking agent's frame count, the request has
\* brought them and the tracker was initialized from them
C39_RequestInitializesTracker ==
    (/\ UninitializedTurn
     /\ detection_agent.frame_count >= tracking_agent.frame_count - ResultsMaxAge) =>
        /\ "init" \in LastOps
        /\ tracking_agent.initialized

-----------------------------------------------------------------------------
(* Properties of a cleanup next to the workers' writes, checked under      *)
(* SpecRace                                                                *)

\* C33: once a job's worker and the cleanup are both through, the job is
\* either not in the registry or in it with the completed or error its
\* worker wrote; and the cleanup's last statement leaves every entry with
\* such a status as it finds it
C33_WorkerWriteSurvivesCleanup ==
    /\ [](\A k \in Returned :
            (driver[k].pc = "done" /\ ~Cleaning /\ DictHas(processing_jobs, k)) =>
                DictGet(processing_jobs, k).status \in Terminal)
    /\ [][last.op = "cleared" /\ last'.op = "cleanup" =>
            \A k \in DictKeys(processing_jobs) :
                DictGet(processing_jobs, k).status \in Terminal =>
                    DictGet(processing_jobs', k) = DictGet(processing_jobs, k)]_vars

-----------------------------------------------------------------------------
(* Properties of a job's end, checked under SpecScheduled                  *)

-----------------------------------------------------------------------------
(* Properties of two jobs on the one processor, checked under SpecJobs     *)

\* what the service holds under the key b: the registry entry, the
\* processor's status, the results in memory and the results file
EntriesOf(b) ==
    [d \in {"processing_jobs", "processing_status", "detection_results", "results_files"} |->
        LET dict == CASE d = "processing_jobs" -> processing_jobs
                      [] d = "processing_status" -> processing_status
                      [] d = "detection_results" -> detection_results
                      [] OTHER -> results_files
        IN  IF b \in DOMAIN dict THEN <<dict[b]>> ELSE <<>>]

\* C37: a step of the worker of job a (its position or its frame counter
\* moves) leaves what the service holds under every other key b as it was
C37_DriverWritesOwnEntriesOnly ==
    [][\A a \in JobIds : \A b \in JobIds \ {a} :
          (driver'[a].pc # driver[a].pc \/ driver'[a].frame_count # driver[a].frame_count)
              => EntriesOf(b)' = EntriesOf(b)]_vars

====
